---------------------------- MODULE Spec2Model ----------------------------
(***************************************************************************)
(* A model of the compiler front end: the parser (tokens -> AST) and the   *)
(* lowering visitor (typed AST -> IR).  The visitor and the parser are     *)
(* translated function by function; inputs are drawn from bounded sets.    *)
(***************************************************************************)
EXTENDS Integers, Sequences, FiniteSets, TLC

VARIABLES cu, v, fi, runs, src, parser, perr, pexpr, tokenizer, tokens, tret,
          visited, entry, outcome

lowerVars == <<cu, v, fi, runs>>
parseVars == <<src, parser, perr, pexpr>>
lexVars == <<tokenizer, tokens, tret>>
visitVars == <<visited, entry, outcome>>
vars == <<cu, v, fi, runs, src, parser, perr, pexpr, tokenizer, tokens, tret,
          visited, entry, outcome>>

(***************************************************************************)
(* Bounds of the model.                                                    *)
(***************************************************************************)
MaxRuns == 2
MaxFuncs == 3
MaxDepth == 2
MaxExprDepth == 2
MaxStmts == 2
MaxOps == 2
MaxAttrDecls == 2
MaxInput == 4

(***************************************************************************)
(* fmt.Sprintf("%04d", n)                                                  *)
(***************************************************************************)
Digit(d) ==
  CASE d = 0 -> "0" [] d = 1 -> "1" [] d = 2 -> "2" [] d = 3 -> "3"
    [] d = 4 -> "4" [] d = 5 -> "5" [] d = 6 -> "6" [] d = 7 -> "7"
    [] d = 8 -> "8" [] d = 9 -> "9"

RECURSIVE Itoa(_)
Itoa(n) == IF n < 10 THEN Digit(n) ELSE Itoa(n \div 10) \o Digit(n % 10)

Pad4(n) ==
  IF n < 10 THEN "000" \o Itoa(n)
  ELSE IF n < 100 THEN "00" \o Itoa(n)
  ELSE IF n < 1000 THEN "0" \o Itoa(n)
  ELSE Itoa(n)

(***************************************************************************)
(* IR values and instructions.                                             *)
(***************************************************************************)
NilVal == [t |-> "nil", n |-> 0, id |-> ""]
NewValInteger(n) == [t |-> "int", n |-> n, id |-> ""]
NewValGlobal(id) == [t |-> "global", n |-> 0, id |-> id]
NewValIdent(id) == [t |-> "ident", n |-> 0, id |-> id]

NewLabel(name) == [i |-> "Label", name |-> name]
NewJnz(c, t, f) == [i |-> "Jnz", cond |-> c, ifTrue |-> t, ifFalse |-> f]
NewJmp(l) == [i |-> "Jmp", target |-> l]
NewRet(val) == [i |-> "Ret", val |-> val]
NewBinop(op, dest, lhs, rhs) ==
  [i |-> "Binop", bop |-> op, dest |-> dest, lhs |-> lhs, rhs |-> rhs]
NewLoad(dest, addr) == [i |-> "Load", dest |-> dest, addr |-> addr]
NewStore(addr, val) == [i |-> "Store", addr |-> addr, val |-> val]
NewCall(callee, args) ==
  [i |-> "Call", callee |-> callee, args |-> args, ret |-> "", retTy |-> ""]
WithRet(call, lhs, retTy) == [call EXCEPT !.ret = lhs, !.retTy = retTy]
NewArgRegular(abiTy, val) == [abiTy |-> abiTy, val |-> val]
NewParamRegular(abiTy, ident) == [abiTy |-> abiTy, ident |-> ident]
NewDataDefStringZ(ident, s) == [ident |-> ident, str |-> s]

NewFuncDef(ident, params) ==
  [Ident |-> ident, Params |-> params, LinkName |-> "", RetTy |-> "",
   Linkage |-> "", Blocks |-> <<>>]
WithRetTy(f, retTy) == [f EXCEPT !.RetTy = retTy]
WithLinkage(f, l) == [f EXCEPT !.Linkage = l]
WithBlocks(f, b) == [f EXCEPT !.Blocks = @ \o <<b>>]

(***************************************************************************)
(* The visitor.  A type is its Kind ("int", "bool", "string", "void",      *)
(* "pointer", "unknown"); "nil" is the nil *ast.Type.                      *)
(***************************************************************************)
NewCompilationUnit == [FuncDefs |-> <<>>, DataDefs |-> <<>>]

\* Mutant: a visitor that keeps the temporary counter of the previous one.
newVisitor_Stale ==
  [unit |-> NewCompilationUnit, lastVal |-> NilVal, lastType |-> "nil",
   lastInstructions |-> <<>>, tmpCounter |-> v.tmpCounter, labelCounter |-> 0,
   panic |-> ""]

newVisitor ==
  [unit |-> NewCompilationUnit, lastVal |-> NilVal, lastType |-> "nil",
   lastInstructions |-> <<>>, tmpCounter |-> 0, labelCounter |-> 0,
   panic |-> ""]

mapTypeToAbiTy(ty) ==
  CASE ty = "nil" -> "w"
    [] ty = "int" -> "w"
    [] ty = "string" -> "l"
    [] ty = "pointer" -> "l"
    [] OTHER -> "w"

\* Mutant: the label is formatted but the incremented counter is not stored.
nextLabel_NoIncrement(vis, tag) ==
  [v |-> vis, label |-> "L" \o Pad4(vis.labelCounter + 1) \o "_" \o tag]

nextLabel(vis, tag) ==
  LET c == vis.labelCounter + 1
  IN [v |-> [vis EXCEPT !.labelCounter = c],
      label |-> "L" \o Pad4(c) \o "_" \o tag]

nextIdent(vis, prefix) ==
  LET c == vis.tmpCounter + 1
  IN [v |-> [vis EXCEPT !.tmpCounter = c],
      ident |-> "_" \o prefix \o "_" \o Pad4(c)]

\* Mutant: no block label is inserted after a Ret.
appendInstruction_NoBlock(vis, instr) ==
  [vis EXCEPT !.lastInstructions = Append(@, instr)]

appendInstruction(vis, instr) ==
  IF instr.i = "Label"
  THEN [vis EXCEPT !.lastInstructions = Append(@, instr)]
  ELSE IF Len(vis.lastInstructions) > 0
          /\ vis.lastInstructions[Len(vis.lastInstructions)].i = "Ret"
       THEN LET r == nextLabel(vis, "block")
            IN [r.v EXCEPT !.lastInstructions =
                               Append(Append(@, NewLabel(r.label)), instr)]
       ELSE [vis EXCEPT !.lastInstructions = Append(@, instr)]

RECURSIVE Accept(_, _)

RECURSIVE AcceptAll(_, _)
AcceptAll(vis, nodes) ==
  IF nodes = <<>> THEN vis
  ELSE AcceptAll(Accept(vis, Head(nodes)), Tail(nodes))

VisitFuncParam(fp) == NewParamRegular(mapTypeToAbiTy(fp.Type), fp.Ident)

VisitBody(vis, b) == AcceptAll(vis, b.Instructions)

VisitDeclare(vis, d) == vis

VisitVariableRef(vis, vr) ==
  [vis EXCEPT !.lastVal = NewValIdent(vr.Ident), !.lastType = vr.Type]

\* Mutant: the pointer expression of a Deref is lowered before the value.
VisitAssign_PointerFirst(vis, a) ==
  IF a.LHS.k = "Deref"
  THEN LET v3 == Accept([vis EXCEPT !.lastVal = NilVal], a.LHS.Expr)
           v1 == Accept([v3 EXCEPT !.lastVal = NilVal], a.Value)
       IN appendInstruction(v1, NewStore(v3.lastVal, v1.lastVal))
  ELSE LET v1 == Accept([vis EXCEPT !.lastVal = NilVal], a.Value)
           v3 == VisitVariableRef([v1 EXCEPT !.lastVal = NilVal], a.LHS)
       IN appendInstruction(v3,
            NewBinop("add", v3.lastVal, v1.lastVal, NewValInteger(0)))

VisitAssign(vis, a) ==
  LET v1 == Accept([vis EXCEPT !.lastVal = NilVal], a.Value)
      val == v1.lastVal
      v2 == [v1 EXCEPT !.lastVal = NilVal]
  IN IF a.LHS.k = "Deref"
     THEN LET v3 == Accept(v2, a.LHS.Expr)
          IN appendInstruction(v3, NewStore(v3.lastVal, val))
     ELSE LET v3 == VisitVariableRef(v2, a.LHS)
          IN appendInstruction(v3,
               NewBinop("add", v3.lastVal, val, NewValInteger(0)))

\* The callee symbol: the link name of the first already lowered function of
\* that name that has one, else the name itself.
RECURSIVE CalleeIdent(_, _)
CalleeIdent(funcDefs, ident) ==
  IF funcDefs = <<>> THEN ident
  ELSE IF Head(funcDefs).Ident = ident /\ Head(funcDefs).LinkName # ""
       THEN Head(funcDefs).LinkName
       ELSE CalleeIdent(Tail(funcDefs), ident)

\* The argument loop of VisitCall: the visitor after the arguments and the
\* lowered arguments.
RECURSIVE LowerArgs(_, _, _)
LowerArgs(vis, args, acc) ==
  IF args = <<>> THEN [v |-> vis, args |-> acc]
  ELSE LET v1 == Accept([vis EXCEPT !.lastVal = NilVal], Head(args).Value)
       IN LowerArgs(v1, Tail(args),
            Append(acc, NewArgRegular(mapTypeToAbiTy(Head(args).Type),
                                      v1.lastVal)))

VisitCall(vis, c) ==
  LET ident == CalleeIdent(vis.unit.FuncDefs, c.Ident)
      calleeVal == NewValGlobal(ident)
      la == LowerArgs(vis, c.Args, <<>>)
      ni == nextIdent(la.v, "tmp")
      retVal == NewValIdent(ni.ident)
      call == NewCall(calleeVal, la.args)
      call2 == IF c.Type # "nil" /\ c.Type # "void"
               THEN WithRet(call, retVal.id, mapTypeToAbiTy(c.Type))
               ELSE call
  IN [appendInstruction(ni.v, call2) EXCEPT !.lastVal = retVal]

\* Mutant: a return without a value emits nothing.
VisitReturn_ValueOnly(vis, r) ==
  IF r.Value.k = "Nil"
  THEN vis
  ELSE LET v1 == Accept([vis EXCEPT !.lastVal = NilVal], r.Value)
       IN appendInstruction(v1, NewRet(v1.lastVal))

VisitReturn(vis, r) ==
  IF r.Value.k = "Nil"
  THEN appendInstruction(vis, NewRet(NilVal))
  ELSE LET v1 == Accept([vis EXCEPT !.lastVal = NilVal], r.Value)
       IN appendInstruction(v1, NewRet(v1.lastVal))

\* Mutant: a string literal equal to an earlier one shares its definition.
VisitLiteral_Interned(vis, l) ==
  CASE l.Type = "int" ->
         [vis EXCEPT !.lastVal = NewValInteger(l.IntValue), !.lastType = l.Type]
    [] l.Type = "bool" ->
         [vis EXCEPT !.lastVal = NewValInteger(IF l.BoolValue THEN 1 ELSE 0),
                     !.lastType = l.Type]
    [] l.Type = "string" ->
         IF \E i \in DOMAIN vis.unit.DataDefs : vis.unit.DataDefs[i].str = l.StringValue
         THEN [vis EXCEPT
                 !.lastVal = NewValGlobal(
                   vis.unit.DataDefs[CHOOSE i \in DOMAIN vis.unit.DataDefs :
                                       vis.unit.DataDefs[i].str = l.StringValue].ident),
                 !.lastType = l.Type]
         ELSE LET ni == nextIdent(vis, "str")
              IN [ni.v EXCEPT
                    !.unit.DataDefs = Append(@, NewDataDefStringZ(ni.ident, l.StringValue)),
                    !.lastVal = NewValGlobal(ni.ident),
                    !.lastType = l.Type]

VisitLiteral(vis, l) ==
  CASE l.Type = "int" ->
         [vis EXCEPT !.lastVal = NewValInteger(l.IntValue), !.lastType = l.Type]
    [] l.Type = "bool" ->
         [vis EXCEPT !.lastVal = NewValInteger(IF l.BoolValue THEN 1 ELSE 0),
                     !.lastType = l.Type]
    [] l.Type = "string" ->
         LET ni == nextIdent(vis, "str")
         IN [ni.v EXCEPT
               !.unit.DataDefs = Append(@, NewDataDefStringZ(ni.ident, l.StringValue)),
               !.lastVal = NewValGlobal(ni.ident),
               !.lastType = l.Type]

binOpMap(op) ==
  CASE op = "+" -> "add"  [] op = "-" -> "sub"  [] op = "*" -> "mul"
    [] op = "/" -> "div"  [] op = "==" -> "eq"  [] op = "!=" -> "ne"
    [] op = "<" -> "lt"   [] op = "<=" -> "le"  [] op = ">" -> "gt"
    [] op = ">=" -> "ge"  [] op = "<<" -> "shl" [] op = ">>" -> "shr"
    [] op = "&" -> "and"  [] op = "|" -> "or"

\* Mutant: && short-circuits on the true arm, as || does.
VisitBinop_AndTakesTrueArm(vis, b) ==
  LET v1 == Accept([vis EXCEPT !.lastVal = NilVal, !.lastType = "nil"], b.Lhs)
      left == v1.lastVal
      leftType == v1.lastType
      ni == nextIdent(v1, "tmp")
      result == NewValIdent(ni.ident)
  IN CASE b.Operation = "&&" ->
            LET tl == nextLabel(ni.v, "true")
                fl == nextLabel(tl.v, "false")
                el == nextLabel(fl.v, "end")
                a1 == appendInstruction(el.v, NewJnz(left, tl.label, fl.label))
                a2 == appendInstruction(a1, NewLabel(tl.label))
                a3 == appendInstruction(a2,
                        NewBinop("add", result, left, NewValInteger(0)))
                a4 == appendInstruction(a3, NewJmp(el.label))
                a5 == appendInstruction(a4, NewLabel(fl.label))
                a6 == Accept(a5, b.Rhs)
                a7 == appendInstruction(a6,
                        NewBinop("add", result, a6.lastVal, NewValInteger(0)))
                a8 == appendInstruction(a7, NewLabel(el.label))
            IN [a8 EXCEPT !.lastVal = result]
       [] b.Operation = "||" ->
            LET tl == nextLabel(ni.v, "true")
                fl == nextLabel(tl.v, "false")
                el == nextLabel(fl.v, "end")
                a1 == appendInstruction(el.v, NewJnz(left, tl.label, fl.label))
                a2 == appendInstruction(a1, NewLabel(tl.label))
                a3 == appendInstruction(a2,
                        NewBinop("add", result, left, NewValInteger(0)))
                a4 == appendInstruction(a3, NewJmp(el.label))
                a5 == appendInstruction(a4, NewLabel(fl.label))
                a6 == Accept(a5, b.Rhs)
                a7 == appendInstruction(a6,
                        NewBinop("add", result, a6.lastVal, NewValInteger(0)))
                a8 == appendInstruction(a7, NewLabel(el.label))
            IN [a8 EXCEPT !.lastVal = result]
       [] OTHER ->
            LET v2 == Accept([ni.v EXCEPT !.lastVal = NilVal, !.lastType = "nil"],
                             b.Rhs)
                right == v2.lastVal
                rightType == v2.lastType
                irOp == binOpMap(b.Operation)
                isLhsPtr == leftType # "nil" /\ leftType = "pointer"
                isRhsPtr == rightType # "nil" /\ rightType = "pointer"
            IN IF b.Operation \in {"+", "-"} /\ isLhsPtr # isRhsPtr
               THEN LET elemSize == 4
                        ptrSide == IF isLhsPtr THEN left ELSE right
                        intSide == IF isLhsPtr THEN right ELSE left
                        nx == nextIdent(v2, "idx")
                        tmpScaled == NewValIdent(nx.ident)
                        s1 == appendInstruction(nx.v,
                                NewBinop("mul", tmpScaled, intSide,
                                         NewValInteger(elemSize)))
                        s2 == appendInstruction(s1,
                                NewBinop(irOp, result, ptrSide, tmpScaled))
                    IN [s2 EXCEPT !.lastVal = result, !.lastType = b.Type]
               ELSE [appendInstruction(v2, NewBinop(irOp, result, left, right))
                       EXCEPT !.lastVal = result, !.lastType = b.Type]

VisitBinop(vis, b) ==
  LET v1 == Accept([vis EXCEPT !.lastVal = NilVal, !.lastType = "nil"], b.Lhs)
      left == v1.lastVal
      leftType == v1.lastType
      ni == nextIdent(v1, "tmp")
      result == NewValIdent(ni.ident)
  IN CASE b.Operation = "&&" ->
            LET tl == nextLabel(ni.v, "true")
                fl == nextLabel(tl.v, "false")
                el == nextLabel(fl.v, "end")
                a1 == appendInstruction(el.v, NewJnz(left, tl.label, fl.label))
                a2 == appendInstruction(a1, NewLabel(fl.label))
                a3 == appendInstruction(a2,
                        NewBinop("add", result, left, NewValInteger(0)))
                a4 == appendInstruction(a3, NewJmp(el.label))
                a5 == appendInstruction(a4, NewLabel(tl.label))
                a6 == Accept(a5, b.Rhs)
                a7 == appendInstruction(a6,
                        NewBinop("add", result, a6.lastVal, NewValInteger(0)))
                a8 == appendInstruction(a7, NewLabel(el.label))
            IN [a8 EXCEPT !.lastVal = result]
       [] b.Operation = "||" ->
            LET tl == nextLabel(ni.v, "true")
                fl == nextLabel(tl.v, "false")
                el == nextLabel(fl.v, "end")
                a1 == appendInstruction(el.v, NewJnz(left, tl.label, fl.label))
                a2 == appendInstruction(a1, NewLabel(tl.label))
                a3 == appendInstruction(a2,
                        NewBinop("add", result, left, NewValInteger(0)))
                a4 == appendInstruction(a3, NewJmp(el.label))
                a5 == appendInstruction(a4, NewLabel(fl.label))
                a6 == Accept(a5, b.Rhs)
                a7 == appendInstruction(a6,
                        NewBinop("add", result, a6.lastVal, NewValInteger(0)))
                a8 == appendInstruction(a7, NewLabel(el.label))
            IN [a8 EXCEPT !.lastVal = result]
       [] OTHER ->
            LET v2 == Accept([ni.v EXCEPT !.lastVal = NilVal, !.lastType = "nil"],
                             b.Rhs)
                right == v2.lastVal
                rightType == v2.lastType
                irOp == binOpMap(b.Operation)
                isLhsPtr == leftType # "nil" /\ leftType = "pointer"
                isRhsPtr == rightType # "nil" /\ rightType = "pointer"
            IN IF b.Operation \in {"+", "-"} /\ isLhsPtr # isRhsPtr
               THEN LET elemSize == 4
                        ptrSide == IF isLhsPtr THEN left ELSE right
                        intSide == IF isLhsPtr THEN right ELSE left
                        nx == nextIdent(v2, "idx")
                        tmpScaled == NewValIdent(nx.ident)
                        s1 == appendInstruction(nx.v,
                                NewBinop("mul", tmpScaled, intSide,
                                         NewValInteger(elemSize)))
                        s2 == appendInstruction(s1,
                                NewBinop(irOp, result, ptrSide, tmpScaled))
                    IN [s2 EXCEPT !.lastVal = result, !.lastType = b.Type]
               ELSE [appendInstruction(v2, NewBinop(irOp, result, left, right))
                       EXCEPT !.lastVal = result, !.lastType = b.Type]

\* Mutant: the labels are allocated after the initialisers and the condition.
VisitIf_LateLabels(vis, iff) ==
  LET v1 == AcceptAll(vis, iff.Init)
      v2 == Accept(v1, iff.Cond)
      tl == nextLabel(v2, "then")
      fl == nextLabel(tl.v, "else")
      el == nextLabel(fl.v, "end")
      v3 == appendInstruction(el.v, NewJnz(v2.lastVal, tl.label, fl.label))
      v4 == appendInstruction(v3, NewLabel(tl.label))
      v5 == Accept(v4, iff.Then)
      v6 == appendInstruction(v5, NewJmp(el.label))
      v7 == appendInstruction(v6, NewLabel(fl.label))
      v8 == IF iff.Else.k # "Nil" THEN Accept(v7, iff.Else) ELSE v7
  IN appendInstruction(v8, NewLabel(el.label))

\* Mutant: the else label is emitted only when there is an else part.
VisitIf_NoElseLabel(vis, iff) ==
  LET tl == nextLabel(vis, "then")
      fl == nextLabel(tl.v, "else")
      el == nextLabel(fl.v, "end")
      v1 == AcceptAll(el.v, iff.Init)
      v2 == Accept(v1, iff.Cond)
      v3 == appendInstruction(v2, NewJnz(v2.lastVal, tl.label, fl.label))
      v4 == appendInstruction(v3, NewLabel(tl.label))
      v5 == Accept(v4, iff.Then)
      v6 == appendInstruction(v5, NewJmp(el.label))
      v8 == IF iff.Else.k # "Nil"
            THEN Accept(appendInstruction(v6, NewLabel(fl.label)), iff.Else)
            ELSE v6
  IN appendInstruction(v8, NewLabel(el.label))

VisitIf(vis, iff) ==
  LET tl == nextLabel(vis, "then")
      fl == nextLabel(tl.v, "else")
      el == nextLabel(fl.v, "end")
      v1 == AcceptAll(el.v, iff.Init)
      v2 == Accept(v1, iff.Cond)
      v3 == appendInstruction(v2, NewJnz(v2.lastVal, tl.label, fl.label))
      v4 == appendInstruction(v3, NewLabel(tl.label))
      v5 == Accept(v4, iff.Then)
      v6 == appendInstruction(v5, NewJmp(el.label))
      v7 == appendInstruction(v6, NewLabel(fl.label))
      v8 == IF iff.Else.k # "Nil" THEN Accept(v7, iff.Else) ELSE v7
  IN appendInstruction(v8, NewLabel(el.label))

\* Mutant: the post statements are lowered before the body.
VisitFor_PostFirst(vis, f) ==
  LET sl == nextLabel(vis, "for")
      bl == nextLabel(sl.v, "body")
      el == nextLabel(bl.v, "end")
      v1 == AcceptAll(el.v, f.Init)
      v2 == appendInstruction(v1, NewLabel(sl.label))
      v3 == Accept(v2, f.Cond)
      v4 == appendInstruction(v3, NewJnz(v3.lastVal, bl.label, el.label))
      v5 == appendInstruction(v4, NewLabel(bl.label))
      v6 == AcceptAll(v5, f.Post)
      v7 == Accept(v6, f.Body)
      v8 == appendInstruction(v7, NewJmp(sl.label))
  IN appendInstruction(v8, NewLabel(el.label))

VisitFor(vis, f) ==
  LET sl == nextLabel(vis, "for")
      bl == nextLabel(sl.v, "body")
      el == nextLabel(bl.v, "end")
      v1 == AcceptAll(el.v, f.Init)
      v2 == appendInstruction(v1, NewLabel(sl.label))
      v3 == Accept(v2, f.Cond)
      v4 == appendInstruction(v3, NewJnz(v3.lastVal, bl.label, el.label))
      v5 == appendInstruction(v4, NewLabel(bl.label))
      v6 == Accept(v5, f.Body)
      v7 == AcceptAll(v6, f.Post)
      v8 == appendInstruction(v7, NewJmp(sl.label))
  IN appendInstruction(v8, NewLabel(el.label))

VisitDeref(vis, d) ==
  LET v1 == Accept(vis, d.Expr)
      addr == v1.lastVal
      ni == nextIdent(v1, "tmp")
      tmp == NewValIdent(ni.ident)
  IN [appendInstruction(ni.v, NewLoad(tmp, addr))
        EXCEPT !.lastVal = tmp, !.lastType = d.Type]

\* node.Accept(v): the dispatch on the node's dynamic type.
Accept(vis, node) ==
  CASE node.k = "Body" -> VisitBody(vis, node)
    [] node.k = "Declare" -> VisitDeclare(vis, node)
    [] node.k = "Assign" -> VisitAssign(vis, node)
    [] node.k = "Call" -> VisitCall(vis, node)
    [] node.k = "Return" -> VisitReturn(vis, node)
    [] node.k = "Literal" -> VisitLiteral(vis, node)
    [] node.k = "Binop" -> VisitBinop(vis, node)
    [] node.k = "If" -> VisitIf(vis, node)
    [] node.k = "For" -> VisitFor(vis, node)
    [] node.k = "VariableRef" -> VisitVariableRef(vis, node)
    [] node.k = "Deref" -> VisitDeref(vis, node)

RECURSIVE LowerParams(_)
LowerParams(params) ==
  IF params = <<>> THEN <<>>
  ELSE <<VisitFuncParam(Head(params))>> \o LowerParams(Tail(params))

\* VisitFuncDef panics on a function whose linkname attribute has a value
\* that is not a string.
LinknamePanics(fd) ==
  /\ "linkname" \in DOMAIN fd.Attributes
  /\ fd.Attributes["linkname"].ty # "string"

\* With no value written the attribute value is nil and v.Type() fails;
\* any other value gets the explicit panic.
LinknamePanic(fd) ==
  IF fd.Attributes["linkname"].ty = "none"
  THEN "invalid memory address or nil pointer dereference"
  ELSE "link_name attribute must be a string"

\* Mutant: the temporary counter is reset with the label counter.
VisitFuncDef_ResetTmp(vis, fd) ==
  LET v0 == [vis EXCEPT !.labelCounter = 0, !.tmpCounter = 0,
                        !.lastInstructions = <<>>]
      f1 == NewFuncDef(fd.Ident, LowerParams(fd.Params))
      f2 == IF "linkname" \in DOMAIN fd.Attributes
            THEN [f1 EXCEPT !.LinkName = fd.Attributes["linkname"].s]
            ELSE f1
      f3 == IF fd.ReturnType # "nil" /\ fd.ReturnType # "void"
            THEN WithRetTy(f2, mapTypeToAbiTy(fd.ReturnType))
            ELSE f2
      f4 == IF "export" \in DOMAIN fd.Attributes
            THEN WithLinkage(f3, "export")
            ELSE f3
      v1 == IF fd.Body.k # "Nil" THEN Accept(v0, fd.Body) ELSE v0
      f5 == IF fd.Body.k # "Nil"
            THEN WithBlocks(f4, [Label |-> "start",
                                 Instructions |-> v1.lastInstructions])
            ELSE f4
  IN IF LinknamePanics(fd) THEN [v0 EXCEPT !.panic = LinknamePanic(fd)]
     ELSE [v1 EXCEPT !.unit.FuncDefs = Append(@, f5)]

VisitFuncDef(vis, fd) ==
  LET v0 == [vis EXCEPT !.labelCounter = 0, !.lastInstructions = <<>>]
      f1 == NewFuncDef(fd.Ident, LowerParams(fd.Params))
      f2 == IF "linkname" \in DOMAIN fd.Attributes
            THEN [f1 EXCEPT !.LinkName = fd.Attributes["linkname"].s]
            ELSE f1
      f3 == IF fd.ReturnType # "nil" /\ fd.ReturnType # "void"
            THEN WithRetTy(f2, mapTypeToAbiTy(fd.ReturnType))
            ELSE f2
      f4 == IF "export" \in DOMAIN fd.Attributes
            THEN WithLinkage(f3, "export")
            ELSE f3
      v1 == IF fd.Body.k # "Nil" THEN Accept(v0, fd.Body) ELSE v0
      f5 == IF fd.Body.k # "Nil"
            THEN WithBlocks(f4, [Label |-> "start",
                                 Instructions |-> v1.lastInstructions])
            ELSE f4
  IN IF LinknamePanics(fd) THEN [v0 EXCEPT !.panic = LinknamePanic(fd)]
     ELSE [v1 EXCEPT !.unit.FuncDefs = Append(@, f5)]

(***************************************************************************)
(* Typed AST nodes, as the parser and the type checker leave them.         *)
(***************************************************************************)
NilNode == [k |-> "Nil"]

NewIntLiteral(n) ==
  [k |-> "Literal", Type |-> "int", IntValue |-> n, BoolValue |-> FALSE,
   StringValue |-> ""]
NewBoolLiteral(bv) ==
  [k |-> "Literal", Type |-> "bool", IntValue |-> 0, BoolValue |-> bv,
   StringValue |-> ""]
NewStringLiteral(s) ==
  [k |-> "Literal", Type |-> "string", IntValue |-> 0, BoolValue |-> FALSE,
   StringValue |-> s]
NewVariableRef(id, ty) == [k |-> "VariableRef", Ident |-> id, Type |-> ty]
NewDeref(e, ty) == [k |-> "Deref", Expr |-> e, Type |-> ty]
NewBinopNode(op, l, r, ty) ==
  [k |-> "Binop", Operation |-> op, Lhs |-> l, Rhs |-> r, Type |-> ty]
NewCallNode(id, args, ty) ==
  [k |-> "Call", Ident |-> id, Args |-> args, Type |-> ty]
NewArg(e, ty) == [Value |-> e, Type |-> ty]
NewReturn(e) == [k |-> "Return", Value |-> e]
NewAssign(lhs, e) == [k |-> "Assign", LHS |-> lhs, Value |-> e]
NewDeclare(id, ty) == [k |-> "Declare", Ident |-> id, Type |-> ty]
NewBody(instrs) == [k |-> "Body", Instructions |-> instrs]
NewIf(init, cond, then, else) ==
  [k |-> "If", Init |-> init, Cond |-> cond, Then |-> then, Else |-> else]
NewFor(init, cond, post, body) ==
  [k |-> "For", Init |-> init, Cond |-> cond, Post |-> post, Body |-> body]
NewFuncParam(id, ty) == [Ident |-> id, Type |-> ty]
NewAstFuncDef(id, attrs, params, ret, body) ==
  [Ident |-> id, Attributes |-> attrs, Params |-> params, ReturnType |-> ret,
   Body |-> body]

\* The type the checker gives a binary operation.
BinopType(op, lt, rt) ==
  IF op \in {"==", "!=", "<", "<=", ">", ">=", "&&", "||"} THEN "bool"
  ELSE IF op \in {"+", "-"} /\ lt = "pointer" THEN "pointer"
  ELSE IF op = "+" /\ rt = "pointer" THEN "pointer"
  ELSE "int"

TBinop(op, l, r) == NewBinopNode(op, l, r, BinopType(op, l.Type, r.Type))

(***************************************************************************)
(* The tokenizer.  The input is a sequence of one-character strings; the   *)
(* scanner is a position in it with Next (the next character or io.EOF at  *)
(* the end of the input) and Unread.  next is written as the chain of its  *)
(* steps, the scanner and buf passed along; a step returns the scanner it  *)
(* leaves, the error ("" for nil) and the token.                           *)
(***************************************************************************)
Token(type, keyword, identifier, stringVal, numberVal) ==
  [Type |-> type, Keyword |-> keyword, Identifier |-> identifier,
   StringVal |-> stringVal, NumberVal |-> numberVal]

\* Token{}
ZeroToken == Token("", "", "", "", 0)

checkKeyword(ident) ==
  IF ident \in {"func", "return", "int", "string", "void", "package"}
  THEN [kw |-> ident, ok |-> TRUE]
  ELSE [kw |-> "", ok |-> FALSE]

Digits == {"0", "1", "2", "3", "4", "5", "6", "7", "8", "9"}

Letters ==
  {"a", "b", "c", "d", "e", "f", "g", "h", "i", "j", "k", "l", "m", "n", "o",
   "p", "q", "r", "s", "t", "u", "v", "w", "x", "y", "z",
   "A", "B", "C", "D", "E", "F", "G", "H", "I", "J", "K", "L", "M", "N", "O",
   "P", "Q", "R", "S", "T", "U", "V", "W", "X", "Y", "Z"}

isAlpha(a) == a \in Letters \/ a = "_"
isNumeric(d) == d \in Digits
isAlphanumeric(a) == isAlpha(a) \/ isNumeric(a)
isWhitespace(c) == c \in {" ", "\t", "\n", "\r"}

\* string(buf)
RECURSIVE String(_)
String(buf) == IF buf = <<>> THEN "" ELSE Head(buf) \o String(Tail(buf))

DigitValue(d) ==
  CASE d = "0" -> 0 [] d = "1" -> 1 [] d = "2" -> 2 [] d = "3" -> 3
    [] d = "4" -> 4 [] d = "5" -> 5 [] d = "6" -> 6 [] d = "7" -> 7
    [] d = "8" -> 8 [] d = "9" -> 9

RECURSIVE Magnitude(_)
Magnitude(ds) ==
  IF ds = <<>> THEN 0 ELSE Magnitude(SubSeq(ds, 1, Len(ds) - 1)) * 10
                           + DigitValue(ds[Len(ds)])

RECURSIVE TrimZeros(_)
TrimZeros(ds) ==
  IF Len(ds) > 1 /\ Head(ds) = "0" THEN TrimZeros(Tail(ds)) ELSE ds

\* The decimal digits of 2^63 - 1 and of 2^63.
MaxInt64 == <<"9", "2", "2", "3", "3", "7", "2", "0", "3", "6", "8", "5", "4", "7",
              "7", "5", "8", "0", "7">>
MinInt64 == [MaxInt64 EXCEPT ![19] = "8"]

\* a > b for digit sequences of the same length.
DigitsGreater(a, b) ==
  \E i \in DOMAIN a :
    /\ DigitValue(a[i]) > DigitValue(b[i])
    /\ \A j \in 1..(i - 1) : a[j] = b[j]

\* strconv.Atoi of an optional '-' and digits: the value, or a range error
\* outside 64 bits.
Atoi(buf) ==
  LET neg == Head(buf) = "-"
      ds == TrimZeros(IF neg THEN Tail(buf) ELSE buf)
  IN IF Len(ds) > 19
        \/ (Len(ds) = 19 /\ DigitsGreater(ds, IF neg THEN MinInt64 ELSE MaxInt64))
     THEN [num |-> 0, err |-> "value out of range"]
     ELSE [num |-> IF neg THEN 0 - Magnitude(ds) ELSE Magnitude(ds), err |-> ""]

NewScanner(data) == [data |-> data, pos |-> 0]

NewTokenizer(scan) == [Scan |-> scan, Buffer |-> <<>>]

ScanNext(s) ==
  IF s.pos >= Len(s.data) THEN [s |-> s, err |-> "EOF", c |-> ""]
  ELSE [s |-> [s EXCEPT !.pos = @ + 1], err |-> "", c |-> s.data[s.pos + 1]]

Unread(s, n) == [s EXCEPT !.pos = @ - n]

LexRes(s, err, val) == [s |-> s, err |-> err, val |-> val]

RECURSIVE nextLoop(_, _)
RECURSIVE nextComment(_, _)
RECURSIVE nextString(_, _)
RECURSIVE nextNumber(_, _)
RECURSIVE nextAlpha(_, _)

\* Inside a comment, r the character read.
nextCommentChar(buf, r) ==
  IF r.err # "" THEN LexRes(r.s, r.err, ZeroToken)
  ELSE IF r.c = "\n" \/ r.c = "\r" THEN nextLoop(r.s, buf)
  ELSE nextComment(r.s, buf)

nextComment(s, buf) == nextCommentChar(buf, ScanNext(s))

\* case c == '/', r the character after it.
nextSlash(buf, r) ==
  IF r.err # "" THEN LexRes(r.s, r.err, ZeroToken)
  ELSE IF r.c = "/" THEN nextComment(r.s, buf)
  ELSE nextLoop(Unread(r.s, 1), buf)

\* case c == '-', r the character after it.
nextMinus(buf, r) ==
  IF r.err # "" THEN LexRes(r.s, r.err, ZeroToken)
  ELSE IF r.c = ">" THEN LexRes(r.s, "", Token("Arrow", "", "", "->", 0))
  ELSE IF isNumeric(r.c) THEN nextLoop(Unread(r.s, 1), Append(buf, "-"))
  ELSE nextLoop(Unread(r.s, 1), buf)

\* Inside a string after a backslash, r the character read.
nextStringEscape(buf, r) ==
  IF r.err # "" THEN LexRes(r.s, r.err, ZeroToken)
  ELSE nextString(r.s, buf \o <<"\\", r.c>>)

\* Inside a string, r the character read.
nextStringChar(buf, r) ==
  IF r.err # "" THEN LexRes(r.s, r.err, ZeroToken)
  ELSE IF r.c = "\"" THEN LexRes(r.s, "", Token("String", "", "", String(buf), 0))
  ELSE IF r.c = "\\" THEN nextStringEscape(buf, ScanNext(r.s))
  ELSE nextString(r.s, Append(buf, r.c))

nextString(s, buf) == nextStringChar(buf, ScanNext(s))

\* The number read, num the result of strconv.Atoi.
nextNumberToken(s, buf, num) ==
  IF num.err # "" THEN LexRes(s, num.err, ZeroToken)
  ELSE LexRes(s, "", Token("Number", "", "", String(buf), num.num))

\* Inside a number, r the character read.
nextNumberChar(buf, r) ==
  IF r.err # "" THEN LexRes(r.s, r.err, ZeroToken)
  ELSE IF isNumeric(r.c) THEN nextNumber(r.s, Append(buf, r.c))
  ELSE nextNumberToken(Unread(r.s, 1), buf, Atoi(buf))

nextNumber(s, buf) == nextNumberChar(buf, ScanNext(s))

\* The identifier read, kw the result of checkKeyword.
nextAlphaToken(s, buf, kw) ==
  IF kw.ok
  THEN LexRes(s, "", Token("Keyword", kw.kw, String(buf), String(buf), 0))
  ELSE LexRes(s, "", Token("Identifier", "", String(buf), String(buf), 0))

\* Inside an identifier, r the character read.
nextAlphaChar(buf, r) ==
  IF r.err # "" THEN LexRes(r.s, r.err, ZeroToken)
  ELSE IF isAlphanumeric(r.c) THEN nextAlpha(r.s, Append(buf, r.c))
  ELSE nextAlphaToken(Unread(r.s, 1), buf, checkKeyword(String(buf)))

nextAlpha(s, buf) == nextAlphaChar(buf, ScanNext(s))

\* The switch on the character read; a character of no case goes round
\* the loop again.
nextSwitch(buf, r) ==
  IF r.err # "" THEN LexRes(r.s, r.err, ZeroToken)
  ELSE CASE r.c = "=" -> LexRes(r.s, "", Token("Equals", "", "", "=", 0))
         [] r.c = "(" -> LexRes(r.s, "", Token("LeftParen", "", "", "(", 0))
         [] r.c = ")" -> LexRes(r.s, "", Token("RightParen", "", "", ")", 0))
         [] r.c = "{" -> LexRes(r.s, "", Token("LeftBrace", "", "", "{", 0))
         [] r.c = "}" -> LexRes(r.s, "", Token("RightBrace", "", "", "}", 0))
         [] r.c = "," -> LexRes(r.s, "", Token("Comma", "", "", ",", 0))
         [] r.c = ":" -> LexRes(r.s, "", Token("Colon", "", "", ":", 0))
         [] r.c = "@" -> LexRes(r.s, "", Token("At", "", "", "@", 0))
         [] r.c = "+" -> LexRes(r.s, "", Token("Plus", "", "", "+", 0))
         [] r.c = "/" -> nextSlash(buf, ScanNext(r.s))
         [] r.c = "-" -> nextMinus(buf, ScanNext(r.s))
         [] isWhitespace(r.c) -> nextLoop(r.s, buf)
         [] r.c = "\"" -> nextString(r.s, buf)
         [] isNumeric(r.c) -> nextNumber(r.s, Append(buf, r.c))
         [] isAlpha(r.c) -> nextAlpha(r.s, Append(buf, r.c))
         [] OTHER -> nextLoop(r.s, buf)

nextLoop(s, buf) == nextSwitch(buf, ScanNext(s))

\* Tokenizer.next: the result on the tokenizer: the tokenizer it leaves, the error
\* and the token.
nextScanned(t, r) == [t |-> [t EXCEPT !.Scan = r.s], err |-> r.err, val |-> r.val]

Tokenizer_next(t) ==
  IF Len(t.Buffer) > 0
  THEN [t |-> [t EXCEPT !.Buffer = Tail(@)], err |-> "", val |-> Head(t.Buffer)]
  ELSE nextScanned(t, nextLoop(t.Scan, <<>>))

\* What Tokens returned: NoReturn while its loop is running.
NoReturn == [tokens |-> <<>>, err |-> "running"]


(***************************************************************************)
(* Attribute values and the AST nodes only the parser builds.  A type is   *)
(* a record [Kind] or [Kind |-> "pointer", Elem]; expression nodes carry   *)
(* the kind of their type ("unknown" until the type checker has run).      *)
(***************************************************************************)
NoAttrs == [a \in {} |-> NilNode]
AttrString(s) == [ty |-> "string", s |-> s]
AttrInt(n) == [ty |-> "int", n |-> n]
AttrNone == [ty |-> "none", s |-> ""]

AttrKeys == {"extern", "export", "linkname", "pure", "inline", "private"}
ParseAttrKey(key) ==
  IF key \in AttrKeys THEN [key |-> key, err |-> ""]
  ELSE [key |-> "", err |-> "unknown attribute"]

NewType(kind) == [Kind |-> kind]
NewPointerType(elem) == [Kind |-> "pointer", Elem |-> elem]
NilType == [Kind |-> "nil"]

NoSource ==
  [decls |-> <<>>, expr |-> <<>>, rest |-> <<>>, unitAttrs |-> <<>>, pkgAt |-> {0}]

NewAstCompilationUnit == [Ident |-> "", Attributes |-> NoAttrs, Funcs |-> <<>>]
FuncParam(id, ty, attrs, value) ==
  [Ident |-> id, Type |-> ty, Attributes |-> attrs, Value |-> value]

(***************************************************************************)
(* Tokens.  The parser holds the token list and a cursor; every parsing    *)
(* function returns the parser state it leaves, an error ("" for nil) and  *)
(* its value.  A function is written as the chain of its steps: the        *)
(* definition f<Step>(..., r) is function f from the point where the call  *)
(* whose result is r has returned, so that each call is made once and its  *)
(* early return on an error is the first branch of the step after it.      *)
(***************************************************************************)
NoToken == [Type |-> "", StringVal |-> "", Keyword |-> "", NumberVal |-> 0]

New(tok) ==
  [tok |-> tok, index |-> 0, unit |-> NewAstCompilationUnit,
   attributes |-> NoAttrs, localID |-> 0, currentRetType |-> "void"]

Res(p, err, val) == [p |-> p, err |-> err, val |-> val]

\* Mutant: the index moves on before the bound is tested.
nextToken_PastEnd(p) ==
  IF p.index >= Len(p.tok)
  THEN Res([p EXCEPT !.index = @ + 1], "EOF", NoToken)
  ELSE Res([p EXCEPT !.index = @ + 1], "", p.tok[p.index + 1])

nextToken(p) ==
  IF p.index >= Len(p.tok) THEN Res(p, "EOF", NoToken)
  ELSE Res([p EXCEPT !.index = @ + 1], "", p.tok[p.index + 1])

expectTypeMatch(tts, r) ==
  IF r.err # "" THEN r
  ELSE IF r.val.Type \in tts THEN r
  ELSE Res(r.p, "expected token type", r.val)

expectType(p, tts) ==
  expectTypeMatch(tts, nextToken(p))

peekTypeRollback(r) ==
  IF r.err = "EOF" THEN r
  ELSE IF r.err # "" THEN Res([r.p EXCEPT !.index = @ - 1], "", r.val)
  ELSE Res(r.p, "", r.val)

peekType(p, tts) ==
  peekTypeRollback(expectType(p, tts))

expectKeywordMatch(kws, r) ==
  IF r.err # "" THEN r
  ELSE IF r.val.Keyword \in kws THEN r
  ELSE Res(r.p, "expected keyword", r.val)

expectKeyword(p, kws) ==
  expectKeywordMatch(kws, expectType(p, {"Keyword"}))

(***************************************************************************)
(* parseType: leading carets, then a type keyword.                         *)
(***************************************************************************)
RECURSIVE parseTypeCarets(_, _)
parseTypeCaretsCount(p, pointerDepth, r) ==
  IF r.err # "" THEN [p |-> r.p, pointerDepth |-> pointerDepth]
  ELSE IF r.val.Type = "Caret" THEN parseTypeCarets(r.p, pointerDepth + 1)
  ELSE [p |-> r.p, pointerDepth |-> pointerDepth]

parseTypeCarets(p, pointerDepth) ==
  parseTypeCaretsCount(p, pointerDepth, peekType(p, {"Caret"}))

RECURSIVE WrapPointer(_, _)
WrapPointer(base, pointerDepth) ==
  IF pointerDepth = 0 THEN base
  ELSE WrapPointer(NewPointerType(base), pointerDepth - 1)

parseTypeBase(c, r) ==
  IF r.err # "" THEN Res(r.p, r.err, NilType)
  ELSE CASE r.val.Keyword = "int" ->
              Res(r.p, "", WrapPointer(NewType("int"), c.pointerDepth))
         [] r.val.Keyword = "string" ->
              Res(r.p, "", WrapPointer(NewType("string"), c.pointerDepth))
         [] r.val.Keyword = "bool" ->
              Res(r.p, "", WrapPointer(NewType("bool"), c.pointerDepth))
         [] r.val.Keyword = "void" ->
              Res(r.p, "", WrapPointer(NewType("void"), c.pointerDepth))
         [] OTHER -> Res(r.p, "unexpected type keyword", NilType)

parseTypeKeyword(c) ==
  parseTypeBase(c, expectType(c.p, {"Keyword"}))

parseType(p) ==
  parseTypeKeyword(parseTypeCarets(p, 0))

(***************************************************************************)
(* Expressions: the Pratt parser.                                          *)
(***************************************************************************)
BinopTokens ==
  {"Plus", "Minus", "Star", "Slash", "Shl", "Shr", "BinAnd", "BinOr",
   "LogAnd", "LogOr", "Eq", "Ne", "Lt", "Le", "Gt", "Ge"}

OpInfo(prec, kind) == [precedence |-> prec, rightAssoc |-> FALSE, kind |-> kind]

opPrecedence(tt) ==
  CASE tt = "Plus" -> OpInfo(10, "+")    [] tt = "Minus" -> OpInfo(10, "-")
    [] tt = "Star" -> OpInfo(20, "*")    [] tt = "Slash" -> OpInfo(20, "/")
    [] tt = "Shl" -> OpInfo(15, "<<")    [] tt = "Shr" -> OpInfo(15, ">>")
    [] tt = "BinAnd" -> OpInfo(8, "&")   [] tt = "BinOr" -> OpInfo(6, "|")
    [] tt = "LogAnd" -> OpInfo(4, "&&")  [] tt = "LogOr" -> OpInfo(3, "||")
    [] tt = "Eq" -> OpInfo(5, "==")      [] tt = "Ne" -> OpInfo(5, "!=")
    [] tt = "Lt" -> OpInfo(7, "<")       [] tt = "Le" -> OpInfo(7, "<=")
    [] tt = "Gt" -> OpInfo(7, ">")       [] tt = "Ge" -> OpInfo(7, ">=")

Starters == {"Number", "Bool", "String", "Ident", "Lparen", "Keyword"}

RECURSIVE parseExpressionPratt(_, _, _)
RECURSIVE parseExpressionLoop(_, _, _)
RECURSIVE parseExpressionIteration(_, _, _)
RECURSIVE parsePrimary(_, _)
RECURSIVE parseCallLoop(_, _)

parseExpression(p, optional) == parseExpressionPratt(p, optional, 0)

\* Mutant: the right operand is parsed with the operator's own precedence,
\* as for a right-associative operator.
nextMinPrec_RightAssoc(info) == info.precedence

\* The minimum precedence for the right-hand side.
nextMinPrec(info) ==
  IF info.rightAssoc THEN info.precedence ELSE info.precedence + 1

\* What one pass through a loop leaves: the parser, the error it returned
\* with ("" for none), the value so far, and whether the loop goes on.
Pass(p, err, val, goesOn) ==
  [p |-> p, err |-> err, val |-> val, goesOn |-> goesOn]

parseExpressionIterationCombine(lhs, info, rhs) ==
  IF rhs.err # "" THEN Pass(rhs.p, rhs.err, NilNode, FALSE)
  ELSE Pass(rhs.p, "",
            NewBinopNode(info.kind, lhs, rhs.val, "unknown"), TRUE)

parseExpressionIterationOperator(lhs, minPrec, peek, info) ==
  IF info.precedence < minPrec
  THEN Pass([peek.p EXCEPT !.index = @ - 1], "", lhs, FALSE)
  ELSE parseExpressionIterationCombine(lhs, info, parseExpressionPratt(peek.p, FALSE, nextMinPrec(info)))

parseExpressionIterationNext(lhs, minPrec, peek) ==
  IF peek.err # "" \/ peek.val.Type \notin BinopTokens
  THEN Pass(peek.p, "", lhs, FALSE)
  ELSE parseExpressionIterationOperator(lhs, minPrec, peek, opPrecedence(peek.val.Type))

\* One pass through the operator loop of parseExpressionPratt.
parseExpressionIteration(p, lhs, minPrec) ==
  parseExpressionIterationNext(lhs, minPrec, peekType(p, BinopTokens))

parseExpressionLoopAgain(minPrec, pass) ==
  IF pass.goesOn THEN parseExpressionLoop(pass.p, pass.val, minPrec)
  ELSE Res(pass.p, pass.err, pass.val)

\* The operator loop of parseExpressionPratt.
parseExpressionLoop(p, lhs, minPrec) ==
  parseExpressionLoopAgain(minPrec, parseExpressionIteration(p, lhs, minPrec))

parseExpressionPrattOperators(minPrec, lhs) ==
  IF lhs.err # "" \/ lhs.val = NilNode THEN lhs
  ELSE parseExpressionLoop(lhs.p, lhs.val, minPrec)

parseExpressionPratt(p, optional, minPrec) ==
  parseExpressionPrattOperators(minPrec, parsePrimary(p, optional))

parseCallLoopMore(args1, next) ==
  IF next.err # "" THEN Res(next.p, next.err, <<>>)
  ELSE IF next.val.Type = "Rparen" THEN Res(next.p, "", args1)
  ELSE parseCallLoop(next.p, args1)

parseCallLoopClose(args, next) ==
  IF next.err # "" THEN Res(next.p, next.err, <<>>)
  ELSE Res(next.p, "", args)

parseCallLoopArg(args, e) ==
  IF e.err # "" THEN Res(e.p, e.err, <<>>)
  ELSE IF e.val # NilNode
  THEN parseCallLoopMore(Append(args, NewArg(e.val, "unknown")),
                         expectType(e.p, {"Rparen", "Comma"}))
  ELSE parseCallLoopClose(args, expectType(e.p, {"Rparen"}))

\* The argument loop of parseCall; args are the arguments parsed so far.
parseCallLoop(p, args) ==
  parseCallLoopArg(args, parseExpression(p, TRUE))

parseCallNode(first, a) ==
  IF a.err # "" THEN Res(a.p, a.err, NilNode)
  ELSE Res(a.p, "", NewCallNode(first.StringVal, a.val, "unknown"))

parseCall(p, first) ==
  parseCallNode(first, parseCallLoop(p, <<>>))

parseParenthesizedDeref(lvalue, e, next) ==
  IF next.err = "" /\ next.val.Type = "Caret"
  THEN Res(next.p, "", NewDeref(e.val, "unknown"))
  ELSE IF lvalue THEN Res(next.p, "invalid lvalue", NilNode)
  ELSE Res(next.p, "", e.val)

parseParenthesizedRparen(lvalue, e, r) ==
  IF r.err # "" THEN Res(r.p, r.err, NilNode)
  ELSE parseParenthesizedDeref(lvalue, e, peekType(r.p, {"Caret"}))

parseParenthesizedInner(lvalue, e) ==
  IF e.err # "" THEN Res(e.p, e.err, NilNode)
  ELSE parseParenthesizedRparen(lvalue, e, expectType(e.p, {"Rparen"}))

\* The parenthesised case of parsePrimary and parseLValue: expr, then ")",
\* then an optional "^" (required for an lvalue).
parseParenthesized(p, lvalue) ==
  parseParenthesizedInner(lvalue, parseExpression(p, FALSE))

parsePrimaryIdent(start, next) ==
  CASE next.val.Type = "Lparen" -> parseCall(next.p, start.val)
    [] next.val.Type = "Caret" ->
         Res(next.p, "",
             NewDeref(NewVariableRef(start.val.StringVal, "unknown"),
                      "unknown"))
    [] OTHER ->
         Res(next.p, "", NewVariableRef(start.val.StringVal, "unknown"))

parsePrimaryToken(optional, start) ==
  IF start.err # "" THEN Res(start.p, start.err, NilNode)
  ELSE IF start.val.Type \notin Starters
  THEN IF optional THEN Res(start.p, "", NilNode)
       ELSE Res(start.p, "expected start of expression", NilNode)
  ELSE CASE start.val.Type = "Keyword" ->
              IF start.val.Keyword = "true"
              THEN Res(start.p, "", NewBoolLiteral(TRUE))
              ELSE IF start.val.Keyword = "false"
              THEN Res(start.p, "", NewBoolLiteral(FALSE))
              ELSE Res(start.p, "unexpected keyword", NilNode)
         [] start.val.Type = "Number" ->
              Res(start.p, "", NewIntLiteral(start.val.NumberVal))
         [] start.val.Type = "Bool" ->
              IF start.val.Keyword = "true"
              THEN Res(start.p, "", NewBoolLiteral(TRUE))
              ELSE IF start.val.Keyword = "false"
              THEN Res(start.p, "", NewBoolLiteral(FALSE))
              ELSE Res(start.p, "panic", NilNode)
         [] start.val.Type = "String" ->
              Res(start.p, "", NewStringLiteral(start.val.StringVal))
         [] start.val.Type = "Ident" ->
              parsePrimaryIdent(start, peekType(start.p, {"Lparen", "Caret"}))
         [] start.val.Type = "Lparen" ->
              parseParenthesized(start.p, FALSE)

parsePrimary(p, optional) ==
  parsePrimaryToken(optional, peekType(p, Starters))

parseLValueIdent(first, next) ==
  IF next.err = "" /\ next.val.Type = "Caret"
  THEN Res(next.p, "",
           NewDeref(NewVariableRef(first.val.StringVal, "unknown"),
                    "unknown"))
  ELSE Res(next.p, "", NewVariableRef(first.val.StringVal, "unknown"))

parseLValueToken(first) ==
  IF first.err # "" THEN Res(first.p, first.err, NilNode)
  ELSE CASE first.val.Type = "Ident" ->
              parseLValueIdent(first, peekType(first.p, {"Caret"}))
         [] first.val.Type = "Lparen" ->
              parseParenthesized(first.p, TRUE)
         [] OTHER -> Res(first.p, "invalid lvalue start", NilNode)

\* parseLValue: a variable, ident^ or (expr)^.
parseLValue(p) ==
  parseLValueToken(nextToken(p))

(***************************************************************************)
(* Statements.                                                             *)
(***************************************************************************)
Dec(p) == [p EXCEPT !.index = @ - 1]

parseAssignValue(lhs, e) ==
  IF e.err # "" THEN Res(e.p, e.err, <<>>)
   ELSE Res(e.p, "", <<NewAssign(lhs, e.val)>>)

parseAssign(p, lhs) ==
  parseAssignValue(lhs, parseExpression(p, FALSE))

parseDeclareWithAssign(ident, declaredType, a) ==
  IF a.err # "" THEN Res(a.p, a.err, <<>>)
  ELSE Res(a.p, "", <<NewDeclare(ident.StringVal, declaredType)>> \o a.val)

parseDeclareAssignment(ident, declaredType, next) ==
  IF next.val.Type = "Assign"
  THEN parseDeclareWithAssign(ident, declaredType,
                            parseAssign(next.p,
                              NewVariableRef(ident.StringVal, declaredType.Kind)))
  ELSE Res(next.p, "", <<NewDeclare(ident.StringVal, declaredType)>>)

parseDeclareAfterType(ident, ty, next) ==
  IF next.err # "" THEN Res(next.p, next.err, <<>>)
  ELSE parseDeclareAssignment(ident, ty.val, next)

parseDeclareType(ident, ty) ==
  IF ty.err # "" THEN Res(ty.p, ty.err, <<>>)
  ELSE parseDeclareAfterType(ident, ty, peekType(ty.p, {"Assign"}))

parseDeclareStart(ident, next) ==
  IF next.err # "" THEN Res(next.p, next.err, <<>>)
  ELSE IF next.val.Type # "Assign" THEN parseDeclareType(ident, parseType(Dec(next.p)))
  ELSE parseDeclareAssignment(ident, NewType("unknown"), next)

\* Mutant: a caret does not start a type.
parseDeclare_NoCaret(p, ident) ==
  parseDeclareStart(ident, peekType(p, {"Assign", "Keyword"}))

parseDeclare(p, ident) ==
  parseDeclareStart(ident, peekType(p, {"Assign", "Keyword", "Caret"}))

RECURSIVE parseBlockLoop(_, _)
RECURSIVE parseIf(_)
RECURSIVE parseFor(_)

parseBlock(p, start) ==
  IF start.Type # "Lbrace" THEN Res(p, "expected {", <<>>)
  ELSE parseBlockLoop(p, <<>>)

parseInitSemicolon(d, s) ==
  IF s.err # "" THEN Res(s.p, s.err, <<>>)
  ELSE Res(s.p, "", d.val)

parseInitStatement(d) ==
       IF d.err # "" THEN Res(d.p, d.err, <<>>)
  ELSE parseInitSemicolon(d, expectType(d.p, {"Semicolon"}))

\* The initializer of parseIf and parseFor once ident ':' or ident '=' has
\* been read: a declaration or an assignment, then a semicolon.
parseInit(p, ident, tok) ==
  parseInitStatement(IF tok.Type = "Colon" THEN parseDeclare(p, ident)
                ELSE parseAssign(p, NewVariableRef(ident.StringVal, "unknown")))

parseIfElseBlockEnd(elseInstrs, rb) ==
  IF rb.err # "" THEN Res(rb.p, rb.err, NilNode)
  ELSE Res(rb.p, "", NewBody(elseInstrs.val))

parseIfElseBlock(elseInstrs) ==
  IF elseInstrs.err # "" THEN Res(elseInstrs.p, elseInstrs.err, NilNode)
  ELSE parseIfElseBlockEnd(elseInstrs, expectType(elseInstrs.p, {"Rbrace"}))

\* elseInstr after the keyword else.
parseIfElse(lbrace, afterElse) ==
  IF afterElse.err # "" THEN Res(afterElse.p, afterElse.err, NilNode)
  ELSE IF afterElse.val.Type = "Keyword" /\ afterElse.val.Keyword = "if"
  THEN parseIf(afterElse.p)
  ELSE IF afterElse.val.Type = "Lbrace"
  THEN parseIfElseBlock(parseBlock(afterElse.p, lbrace.val))
  ELSE Res(afterElse.p, "expected 'if' or '{' after 'else'", NilNode)

\* elseInstr, nil when no else follows the then branch.
parseIfAfterThen(lbrace, nextElse) ==
  IF nextElse.err # "" THEN Res(nextElse.p, nextElse.err, NilNode)
  ELSE IF nextElse.val.Type # "Keyword" THEN Res(nextElse.p, "", NilNode)
  ELSE IF nextElse.val.Keyword # "else" THEN Res(Dec(nextElse.p), "", NilNode)
  ELSE parseIfElse(lbrace, peekType(nextElse.p, {"Keyword", "Lbrace"}))

parseIfResult(ini, cond, thenInstrs, elseInstr) ==
  IF elseInstr.err # "" THEN Res(elseInstr.p, elseInstr.err, NilNode)
  ELSE Res(elseInstr.p, "",
           NewIf(ini.val, cond.val, NewBody(thenInstrs.val), elseInstr.val))

parseIfThenEnd(ini, cond, lbrace, thenInstrs, rb) ==
  IF rb.err # "" THEN Res(rb.p, rb.err, NilNode)
  ELSE parseIfResult(ini, cond, thenInstrs,
                     parseIfAfterThen(lbrace, peekType(rb.p, {"Keyword"})))

parseIfThen(ini, cond, lbrace, thenInstrs) ==
  IF thenInstrs.err # "" THEN Res(thenInstrs.p, thenInstrs.err, NilNode)
  ELSE parseIfThenEnd(ini, cond, lbrace, thenInstrs,
                      expectType(thenInstrs.p, {"Rbrace"}))

parseIfThenStart(ini, cond, lbrace) ==
  IF lbrace.err # "" THEN Res(lbrace.p, lbrace.err, NilNode)
  ELSE parseIfThen(ini, cond, lbrace, parseBlock(lbrace.p, lbrace.val))

parseIfCondition(ini, cond) ==
  IF cond.err # "" THEN Res(cond.p, cond.err, NilNode)
  ELSE parseIfThenStart(ini, cond, expectType(cond.p, {"Lbrace"}))

parseIfBody(ini) ==
  IF ini.err # "" THEN Res(ini.p, ini.err, NilNode)
  ELSE parseIfCondition(ini, parseExpression(ini.p, FALSE))

\* initInstrs; the index is decremented when there is no initializer.
parseIfInitializer(next, tok) ==
  IF tok.err = "" /\ tok.val.Type \in {"Colon", "Assign"}
  THEN parseInit(tok.p, next.val, tok.val)
  ELSE Res(Dec(tok.p), "", <<>>)

parseIfStart(next) ==
  IF next.err # "" THEN Res(Dec(next.p), "", <<>>)
  ELSE parseIfInitializer(next, peekType(next.p, {"Colon", "Assign"}))

parseIf(p) ==
  parseIfBody(parseIfStart(expectType(p, {"Ident"})))

parseForEnd(ini, cond, post, bodyInstrs, rb) ==
  IF rb.err # "" THEN Res(rb.p, rb.err, NilNode)
  ELSE Res(rb.p, "",
           NewFor(ini.val, cond.val, post.val, NewBody(bodyInstrs.val)))

parseForBlock(ini, cond, post, bodyInstrs) ==
  IF bodyInstrs.err # "" THEN Res(bodyInstrs.p, bodyInstrs.err, NilNode)
  ELSE parseForEnd(ini, cond, post, bodyInstrs,
                   expectType(bodyInstrs.p, {"Rbrace"}))

parseForBlockStart(ini, cond, post, lbrace) ==
  IF lbrace.err # "" THEN Res(lbrace.p, lbrace.err, NilNode)
  ELSE parseForBlock(ini, cond, post, parseBlock(lbrace.p, lbrace.val))

parseForBody(ini, cond, post) ==
  IF post.err # "" THEN Res(post.p, post.err, NilNode)
  ELSE parseForBlockStart(ini, cond, post, expectType(post.p, {"Lbrace"}))

\* postInstrs after the semicolon.
parseForPostKind(start, next) ==
  IF next.err # "" THEN Res(next.p, next.err, <<>>)
  ELSE IF next.val.Type = "Colon" THEN parseDeclare(next.p, start.val)
  ELSE IF next.val.Type = "Assign"
  THEN parseAssign(next.p, NewVariableRef(start.val.StringVal, "unknown"))
  ELSE Res(Dec(next.p), "", <<>>)

parseForPostStart(start) ==
  IF start.err # "" THEN Res(start.p, start.err, <<>>)
  ELSE parseForPostKind(start, peekType(start.p, {"Colon", "Assign"}))

parseForAfterCond(ini, cond, semi) ==
  IF semi.err # "" THEN Res(semi.p, semi.err, NilNode)
  ELSE parseForBody(ini, cond,
                    IF semi.val.Type = "Semicolon"
                    THEN parseForPostStart(expectType(semi.p, {"Ident"}))
                    ELSE Res(semi.p, "", <<>>))

parseForCondition(ini, cond) ==
  IF cond.err # "" THEN Res(cond.p, cond.err, NilNode)
  ELSE parseForAfterCond(ini, cond, peekType(cond.p, {"Semicolon"}))

parseForLoop(ini) ==
  IF ini.err # "" THEN Res(ini.p, ini.err, NilNode)
  ELSE parseForCondition(ini, parseExpression(ini.p, FALSE))

\* initInstrs; the index is reset when there is no initializer.
parseForInitializer(p, start, next) ==
  IF next.err = "" /\ next.val.Type \in {"Colon", "Assign"}
  THEN parseInit(next.p, start.val, next.val)
  ELSE Res([next.p EXCEPT !.index = p.index], "", <<>>)

parseForFirst(p, start) ==
  IF start.err # "" THEN Res([start.p EXCEPT !.index = p.index], "", <<>>)
  ELSE parseForInitializer(p, start, peekType(start.p, {"Colon", "Assign"}))

parseFor(p) ==
  parseForLoop(parseForFirst(p, expectType(p, {"Ident"})))

parseBlockStatementCall(inst) ==
  IF inst.err # "" THEN Res(inst.p, inst.err, <<>>)
  ELSE Res(inst.p, "", <<inst.val>>)

parseBlockStatementCallParen(first, next) ==
  IF next.err = "" /\ next.val.Type = "Lparen"
  THEN parseBlockStatementCall(parseCall(next.p, first.val))
  ELSE Res(next.p, "unexpected statement", <<>>)

parseBlockStatementTryCall(first, p3) ==
  IF first.val.Type = "Ident" THEN parseBlockStatementCallParen(first, peekType(p3, {"Lparen"}))
  ELSE Res(p3, "unexpected statement", <<>>)

\* An error of parseLValue is dropped; a panic inside it is not an
\* error value and ends Parse.
parseBlockStatementAssignEq(first, lvalueExpr, next) ==
  IF lvalueExpr.err = "panic" THEN Res(lvalueExpr.p, "panic", <<>>)
  ELSE IF lvalueExpr.err = "" /\ next.err = "" /\ next.val.Type = "Assign"
  THEN parseAssign(next.p, lvalueExpr.val)
  ELSE parseBlockStatementTryCall(first, next.p)

\* The peek for '=' happens only when parseLValue succeeded.
parseBlockStatementAssign(first, lvalueExpr) ==
  parseBlockStatementAssignEq(first, lvalueExpr,
                                     IF lvalueExpr.err = "" THEN peekType(lvalueExpr.p, {"Assign"})
                                     ELSE Res(lvalueExpr.p, lvalueExpr.err, NoToken))

parseBlockStatementDeclareColon(first, next) ==
  IF first.val.Type = "Ident" /\ next.err = "" /\ next.val.Type = "Colon"
  THEN parseDeclare(next.p, first.val)
  ELSE parseBlockStatementAssign(first, parseLValue(Dec(next.p)))

\* The case TypeIdent, TypeLparen of parseBlock: the instructions of one
\* statement.  first is the result of the nextToken that read its first
\* token.  The peek for ':' happens only when that token is an identifier.
parseBlockStatement(first) ==
  parseBlockStatementDeclareColon(first, IF first.val.Type = "Ident" THEN peekType(first.p, {"Colon"})
                                         ELSE Res(first.p, "", NoToken))

parseBlockLoopOne(inst) ==
  IF inst.err # "" THEN Res(inst.p, inst.err, <<>>)
  ELSE Res(inst.p, "", <<inst.val>>)

parseBlockLoopReturn(e) ==
  IF e.err # "" THEN Res(e.p, e.err, <<>>)
  ELSE Res(e.p, "", <<NewReturn(e.val)>>)

\* The instructions one iteration appends.
parseBlockLoopStatement(first) ==
  CASE first.val.Type = "Rbrace" -> Res(Dec(first.p), "", <<>>)
    [] first.val.Type = "Keyword" ->
         CASE first.val.Keyword = "return" ->
                IF first.p.currentRetType = "void"
                THEN Res(first.p, "", <<NewReturn(NilNode)>>)
                ELSE parseBlockLoopReturn(parseExpression(first.p, FALSE))
           [] first.val.Keyword = "if" -> parseBlockLoopOne(parseIf(first.p))
           [] first.val.Keyword = "for" -> parseBlockLoopOne(parseFor(first.p))
           [] OTHER -> Res(first.p, "", <<>>)
    [] first.val.Type \in {"Ident", "Lparen"} -> parseBlockStatement(first)
    [] OTHER -> Res(first.p, "", <<>>)

parseBlockLoopIteration(instructions, first, added) ==
  IF added.err # "" THEN Res(added.p, added.err, <<>>)
  ELSE IF first.val.Type = "Rbrace" THEN Res(added.p, "", instructions)
  ELSE parseBlockLoop(added.p, instructions \o added.val)

parseBlockLoopNext(instructions, first) ==
  IF first.err # "" THEN Res(first.p, first.err, <<>>)
  ELSE parseBlockLoopIteration(instructions, first, parseBlockLoopStatement(first))

\* The loop of parseBlock; instructions are the instructions parsed so far.
parseBlockLoop(p, instructions) ==
  parseBlockLoopNext(instructions, nextToken(p))
(***************************************************************************)
(* Attributes, package clause and function declarations.                   *)
(***************************************************************************)
SetAttr(attrs, key, value) ==
  [k \in DOMAIN attrs \cup {key} |-> IF k = key THEN value ELSE attrs[k]]

\* Mutant: the pending attributes stay.
clearAttributes_Keep(p) == p

\* clear(p.attributes)
clearAttributes(p) == [p EXCEPT !.attributes = NoAttrs]

parseAttributesIterationStore(key, value, next) ==
  Pass([next.p EXCEPT !.attributes = SetAttr(@, key, value)], "", NilNode,
       next.val.Type # "Rparen")

parseAttributesIterationAfterValue(key, value, next) ==
  IF next.err # "" THEN Pass(next.p, next.err, NilNode, FALSE)
  ELSE parseAttributesIterationStore(key, value, next)

parseAttributesIterationValue(key, valTok) ==
  IF valTok.err # "" THEN Pass(valTok.p, valTok.err, NilNode, FALSE)
  ELSE parseAttributesIterationAfterValue(key,
                                 IF valTok.val.Type = "String" THEN AttrString(valTok.val.StringVal)
                                 ELSE AttrInt(valTok.val.NumberVal),
                                 expectType(valTok.p, {"Comma", "Rparen"}))

parseAttributesIterationAfterKey(key, next) ==
  IF next.err # "" THEN Pass(next.p, next.err, NilNode, FALSE)
  ELSE IF next.val.Type = "Assign"
  THEN parseAttributesIterationValue(key, expectType(next.p, {"String", "Number"}))
  ELSE parseAttributesIterationStore(key, AttrNone, next)

parseAttributesIterationKey(tok, validKey) ==
  IF validKey.err # "" THEN Pass(tok.p, validKey.err, NilNode, FALSE)
  ELSE parseAttributesIterationAfterKey(validKey.key,
                                        expectType(tok.p, {"Assign", "Comma", "Rparen"}))

parseAttributesIterationEntry(tok) ==
  IF tok.err # "" THEN Pass(tok.p, tok.err, NilNode, FALSE)
  ELSE IF tok.val.Type = "Rparen" THEN Pass(tok.p, "", NilNode, FALSE)
  ELSE parseAttributesIterationKey(tok, ParseAttrKey(tok.val.StringVal))

\* One pass through the loop of parseAttributes.
parseAttributesIteration(p) ==
  parseAttributesIterationEntry(expectType(p, {"Rparen", "Ident"}))

RECURSIVE parseAttributesLoop(_)
parseAttributesLoopAgain(pass) ==
  IF pass.goesOn THEN parseAttributesLoop(pass.p)
  ELSE Res(pass.p, pass.err, NilNode)

parseAttributesLoop(p) ==
  parseAttributesLoopAgain(parseAttributesIteration(p))

parseAttributesList(lp) ==
  IF lp.err # "" THEN Res(lp.p, lp.err, NilNode)
  ELSE parseAttributesLoop(lp.p)

parseAttributes(p, start) ==
  parseAttributesList(expectType(p, {"Lparen"}))

parsePackageName(pkgName) ==
  IF pkgName.err # "" THEN Res(pkgName.p, pkgName.err, NilNode)
  ELSE Res(clearAttributes(
             [pkgName.p EXCEPT !.unit.Attributes = pkgName.p.attributes,
                               !.unit.Ident = pkgName.val.StringVal]),
           "", NilNode)

parsePackage(p, start) ==
  IF p.unit.Ident # "" THEN Res(p, "package already defined", NilNode)
  ELSE parsePackageName(expectType(p, {"Ident"}))

parseFuncParamWithValue(name, attrs, paramType, value) ==
  IF value.err # "" THEN Res(value.p, value.err, NilNode)
  ELSE Res(value.p, "",
           FuncParam(name.val.StringVal, paramType, attrs, value.val))

parseFuncParamDefault(name, attrs, paramType, equal) ==
  IF equal.err # "" THEN Res(equal.p, equal.err, NilNode)
  ELSE IF equal.val.Type = "Assign"
  THEN parseFuncParamWithValue(name, attrs, paramType, parseExpression(equal.p, FALSE))
  ELSE Res(equal.p, "",
           FuncParam(name.val.StringVal, paramType, attrs, NilNode))

parseFuncParamType(name, attrs, ty) ==
  IF ty.err # "" THEN Res(ty.p, ty.err, NilNode)
  ELSE parseFuncParamDefault(name, attrs, ty.val, peekType(ty.p, {"Assign"}))

parseFuncParamAfterColon(name, attrs, equal) ==
  IF equal.err # "" THEN Res(equal.p, equal.err, NilNode)
  ELSE IF equal.val.Type # "Assign"
  THEN parseFuncParamType(name, attrs, parseType(equal.p))
  ELSE parseFuncParamDefault(name, attrs, NewType("unknown"), equal)

parseFuncParamColon(name, attrs, c) ==
  IF c.err # "" THEN Res(c.p, c.err, NilNode)
  ELSE parseFuncParamAfterColon(name, attrs, peekType(c.p, {"Assign"}))

parseFuncParamIdent(name, attrs) ==
  IF name.err # "" THEN Res(name.p, name.err, NilNode)
  ELSE parseFuncParamColon(name, attrs, expectType(name.p, {"Colon"}))

parseFuncParamAttributes(a) ==
  IF a.err # "" THEN Res(a.p, a.err, NilNode)
  ELSE parseFuncParamIdent(expectType(clearAttributes(a.p), {"Ident"}), a.p.attributes)

parseFuncParamFirst(nextTok) ==
  IF nextTok.err # "" THEN Res(nextTok.p, nextTok.err, NilNode)
  ELSE IF nextTok.val.Type = "Rparen" THEN Res(nextTok.p, "", NilNode)
  ELSE IF nextTok.val.Type = "At"
  THEN parseFuncParamAttributes(parseAttributes(nextTok.p, nextTok.val))
  ELSE parseFuncParamIdent(nextTok, NoAttrs)

parseFuncParam(p) ==
  parseFuncParamFirst(expectType(p, {"Rparen", "At", "Ident"}))

parseFuncReturnTypeType(arrow) ==
  IF arrow.err # "" THEN Res(arrow.p, arrow.err, NilType)
  ELSE IF arrow.val.Type = "Arrow" THEN parseType(arrow.p)
  ELSE Res(arrow.p, "", NewType("void"))

parseFuncReturnType(p) ==
  parseFuncReturnTypeType(peekType(p, {"Arrow"}))

\* The parameter loop of parseFunc; params are the parameters parsed so far.
RECURSIVE parseFuncParams(_, _)
parseFuncParamsSeparator(params, param, tok) ==
  IF tok.err # "" THEN Res(tok.p, tok.err, <<>>)
  ELSE IF tok.val.Type = "Rparen"
  THEN Res(tok.p, "", Append(params, param.val))
  ELSE parseFuncParams(tok.p, Append(params, param.val))

parseFuncParamsOne(params, param) ==
  IF param.err # "" THEN Res(param.p, param.err, <<>>)
  ELSE IF param.val = NilNode THEN Res(param.p, "", params)
  ELSE parseFuncParamsSeparator(params, param, expectType(param.p, {"Comma", "Rparen"}))

parseFuncParams(p, params) ==
  parseFuncParamsOne(params, parseFuncParam(p))

\* Mutant: the definition is put in front of the unit's functions.
AppendFunc_Front(p, def) == [p EXCEPT !.unit.Funcs = <<def>> \o @]

\* p.unit.Funcs = append(p.unit.Funcs, def)
AppendFunc(p, def) == [p EXCEPT !.unit.Funcs = Append(@, def)]

\* The end of parseFunc: the closing brace, then the definition with its
\* body joins the unit.
parseFuncClose(def, instructions, rb) ==
  IF rb.err # "" THEN Res(rb.p, rb.err, NilNode)
  ELSE Res(AppendFunc(rb.p, [def EXCEPT !.Body = NewBody(instructions)]), "",
           NilNode)

\* Mutant: no implicit return is added and a missing return is accepted.
parseFuncImplicitReturn_NoCheck(def, block, addRet) ==
  parseFuncClose(def, block.val, expectType(block.p, {"Rbrace"}))

\* addRet: the block is empty or does not end with a return.
parseFuncImplicitReturn(def, block, addRet) ==
  IF addRet /\ def.ReturnType.Kind # "void"
  THEN Res(block.p, "expected return statement", NilNode)
  ELSE parseFuncClose(def,
                      IF addRet THEN Append(block.val, NewReturn(NilNode))
                      ELSE block.val,
                      expectType(block.p, {"Rbrace"}))

parseFuncBody(def, block) ==
  IF block.err # "" THEN Res(block.p, block.err, NilNode)
  ELSE parseFuncImplicitReturn(def, block,
         IF Len(block.val) = 0 THEN TRUE
         ELSE block.val[Len(block.val)].k # "Return")

parseFuncOpen(def, lbrace) ==
  IF lbrace.err # "" THEN Res(lbrace.p, lbrace.err, NilNode)
  ELSE parseFuncBody(def, parseBlock(lbrace.p, lbrace.val))

parseFuncDeclared(def, p1) ==
  IF "extern" \in DOMAIN def.Attributes
  THEN Res(AppendFunc(p1, def), "", NilNode)
  ELSE parseFuncOpen(def, expectType(p1, {"Lbrace"}))

parseFuncReturns(name, attrs, ps, retType) ==
  IF retType.err # ""
  THEN Res(retType.p, "error parsing return type: " \o retType.err, NilNode)
  ELSE parseFuncDeclared(
                  NewAstFuncDef(name.StringVal, attrs, ps.val, retType.val, NilNode),
                  [retType.p EXCEPT !.currentRetType =
                     IF retType.val.Kind \in {"void", "int", "string"}
                     THEN retType.val.Kind ELSE "void"])

parseFuncParameters(name, attrs, ps) ==
  IF ps.err # "" THEN Res(ps.p, ps.err, NilNode)
  ELSE parseFuncReturns(name, attrs, ps, parseFuncReturnType(ps.p))

parseFuncStart(name, lp) ==
  IF lp.err # "" THEN Res(lp.p, lp.err, NilNode)
  ELSE parseFuncParameters(name, lp.p.attributes,
                                 parseFuncParams(clearAttributes(lp.p), <<>>))

parseFunc(p, name) ==
  parseFuncStart(name, expectType(p, {"Lparen"}))

(***************************************************************************)
(* The typed ASTs the lowering is run on.  Every function has the          *)
(* parameters x: int, p: ^int, b: bool.  Expressions are well typed and of *)
(* nesting depth at most MaxExprDepth, statements nest to MaxDepth.        *)
(***************************************************************************)
VarX == NewVariableRef("x", "int")
VarP == NewVariableRef("p", "pointer")
VarB == NewVariableRef("b", "bool")

RECURSIVE BoolExprs(_)
BoolExprs(d) ==
  IF d = 0 THEN {VarB}
  ELSE BoolExprs(d - 1)
       \cup {TBinop("<", VarX, NewIntLiteral(1))}
       \cup {TBinop(op, l, r) : op \in {"&&", "||"},
                                l \in BoolExprs(d - 1), r \in BoolExprs(d - 1)}

RECURSIVE PtrExprs(_)
PtrExprs(d) ==
  IF d = 0 THEN {VarP}
  ELSE PtrExprs(d - 1)
       \cup {TBinop("+", q, VarX) : q \in PtrExprs(d - 1)}
       \cup {TBinop("+", NewIntLiteral(1), q) : q \in PtrExprs(d - 1)}

RECURSIVE IntExprs(_)
IntExprs(d) ==
  IF d = 0 THEN {VarX, NewIntLiteral(1)}
  ELSE IntExprs(d - 1)
       \cup {NewDeref(q, "int") : q \in PtrExprs(d - 1)}
       \cup {NewCallNode("g", <<NewArg(a, a.Type)>>, "int") :
               a \in {VarP, NewStringLiteral("s")}}
       \cup {TBinop(op, l, VarX) : op \in {"+", "-"}, l \in IntExprs(d - 1)}

\* Statements without a nested block.
SimpleStmts ==
  {NewAssign(VarX, NewIntLiteral(1)),
   NewAssign(NewDeref(VarP, "int"), VarX),
   NewReturn(VarX)}

ExprStmts ==
  {NewAssign(VarX, e) : e \in IntExprs(MaxExprDepth)}
  \cup {NewAssign(VarB, e) : e \in BoolExprs(MaxExprDepth)}
  \cup {NewAssign(VarP, e) : e \in PtrExprs(MaxExprDepth)}
  \cup {NewAssign(NewDeref(e, "int"), NewIntLiteral(1)) : e \in PtrExprs(1)}
  \cup {NewCallNode("g", <<NewArg(NewStringLiteral("s"), "string")>>, "void"),
        NewDeclare("y", "int")}

Conds == {VarB, TBinop("&&", VarB, TBinop("||", VarB, VarB))}

RECURSIVE Stmts(_)
Bodies(d) == {<<>>} \cup {<<s>> : s \in Stmts(d)}

Stmts(d) ==
  IF d = 0 THEN SimpleStmts
  ELSE SimpleStmts
       \cup {NewIf(init, c, NewBody(t), e) :
               init \in {<<>>}, c \in Conds, t \in Bodies(d - 1),
               e \in {NilNode, NewBody(<<NewReturn(VarX)>>),
                      NewIf(<<>>, VarB, NewBody(<<NewReturn(VarX)>>), NilNode)}}
       \cup {NewFor(init, c, post, NewBody(t)) :
               init \in {<<>>},
               c \in Conds,
               post \in {<<NewAssign(VarX, TBinop("+", VarX, NewIntLiteral(1)))>>},
               t \in Bodies(d - 1)}

FuncParams ==
  <<NewFuncParam("x", "int"), NewFuncParam("p", "pointer"),
    NewFuncParam("b", "bool")>>


\* One function with a rich body, ending in the return the parser requires.
RichFuncs ==
  {NewAstFuncDef("f", NoAttrs, FuncParams, "int",
                 NewBody(pre \o <<NewReturn(VarX)>>)) :
     pre \in {<<s>> : s \in Stmts(MaxDepth) \cup ExprStmts}
             \cup {<<s, t>> : s \in Stmts(MaxDepth), t \in SimpleStmts}}

\* Small functions that call each other, some with a link name.
CallG == NewCallNode("g", <<NewArg(NewStringLiteral("s"), "string")>>, "int")
ExternG ==
  NewAstFuncDef("g", ("extern" :> AttrNone) @@ ("linkname" :> AttrString("puts")),
                <<NewFuncParam("m", "string")>>, "int", NilNode)
SmallFuncs ==
  {ExternG,
   NewAstFuncDef("g", ("extern" :> AttrNone),
                 <<NewFuncParam("m", "string")>>, "int", NilNode),
   NewAstFuncDef("g", ("linkname" :> AttrString("puts")),
                 <<NewFuncParam("m", "string")>>, "int",
                 NewBody(<<NewReturn(NewIntLiteral(1))>>)),
   NewAstFuncDef("main", ("export" :> AttrNone), FuncParams, "int",
                 NewBody(<<NewAssign(VarX, CallG), NewReturn(VarX)>>)),
   NewAstFuncDef("h", NoAttrs, FuncParams, "void",
                 NewBody(<<NewIf(<<>>, TBinop("||", VarB, VarB),
                                 NewBody(<<CallG>>), NilNode),
                           NewReturn(NilNode)>>)),
   NewAstFuncDef("k", NoAttrs, FuncParams, "void",
                 NewBody(<<NewIf(<<>>, TBinop("&&", VarB, VarB),
                                 NewBody(<<NewReturn(NilNode)>>), NilNode),
                           NewReturn(NilNode)>>))}

RECURSIVE SeqsUpTo(_, _)
SeqsUpTo(S, n) ==
  IF n = 0 THEN {<<>>}
  ELSE SeqsUpTo(S, n - 1)
       \cup {Append(q, e) : q \in {r \in SeqsUpTo(S, n - 1) : Len(r) = n - 1},
                           e \in S}

\* The type checker accepts a unit only if its function names are distinct
\* and every called function is declared somewhere in the unit.
Declared(fs) ==
  /\ \A i, j \in DOMAIN fs : i # j => fs[i].Ident # fs[j].Ident
  /\ (\E i \in DOMAIN fs : fs[i].Ident \in {"main", "h"})
       => \E j \in DOMAIN fs : fs[j].Ident = "g"

\* g with a linkname attribute that has no value, as written @(linkname).
BareLinknameG ==
  NewAstFuncDef("g", ("extern" :> AttrNone) @@ ("linkname" :> AttrNone),
                <<NewFuncParam("m", "string")>>, "int", NilNode)

Programs ==
  {[Funcs |-> <<ExternG, f>>] : f \in RichFuncs}
  \cup UNION {{[Funcs |-> <<BareLinknameG>>], [Funcs |-> <<BareLinknameG, f>>],
               [Funcs |-> <<f, BareLinknameG>>]}
                : f \in {q \in SmallFuncs : q.Ident = "main"}}
  \cup {[Funcs |-> fs] : fs \in {q \in SeqsUpTo(SmallFuncs, MaxFuncs) : Declared(q)}}

(***************************************************************************)
(* Lower: a fresh visitor visits the unit's functions in order and the     *)
(* visitor's unit is returned.  The driver calls Lower MaxRuns times on    *)
(* the same AST.  fi = 0 between calls; during a call fi is the index of   *)
(* the next function of the loop in VisitCompilationUnit.                  *)
(***************************************************************************)
NoVisitor ==
  [unit |-> NewCompilationUnit, lastVal |-> NilVal, lastType |-> "nil",
   lastInstructions |-> <<>>, tmpCounter |-> 0, labelCounter |-> 0,
   panic |-> ""]

NoOutcome == [done |-> FALSE, v |-> NoVisitor]

Init ==
  /\ cu \in Programs
  /\ v = NoVisitor
  /\ fi = 0
  /\ runs = <<>>
  /\ src = NoSource
  /\ parser = New(<<>>)
  /\ perr = ""
  /\ pexpr = NilNode
  /\ tokenizer = NewTokenizer(NewScanner(<<>>))
  /\ tokens = <<>>
  /\ tret = NoReturn
  /\ visited = NilNode
  /\ entry = NoVisitor
  /\ outcome = NoOutcome

\* visitor := newVisitor(); unit.Accept(visitor) begins.
LowerCall ==
  /\ fi = 0
  /\ Len(runs) < MaxRuns
  /\ v' = newVisitor
  /\ fi' = 1
  /\ UNCHANGED <<cu, runs, parseVars, lexVars, visitVars>>

\* One iteration of the loop over cu.Funcs in VisitCompilationUnit.  After
\* a panic of VisitFuncDef nothing more runs: Lower does not return.
VisitCompilationUnit ==
  /\ fi >= 1
  /\ fi <= Len(cu.Funcs)
  /\ v.panic = ""
  /\ v' = VisitFuncDef(v, cu.Funcs[fi])
  /\ fi' = IF LinknamePanics(cu.Funcs[fi]) THEN fi ELSE fi + 1
  /\ UNCHANGED <<cu, runs, parseVars, lexVars, visitVars>>

\* return visitor.unit, nil
LowerReturn ==
  /\ fi > Len(cu.Funcs)
  /\ v.panic = ""
  /\ runs' = Append(runs, v.unit)
  /\ fi' = 0
  /\ UNCHANGED <<cu, v, parseVars, lexVars, visitVars>>

Next == LowerCall \/ VisitCompilationUnit \/ LowerReturn

Spec == Init /\ [][Next]_vars

(***************************************************************************)
(* Parse: the top-level loop.  One step is one iteration: an attribute     *)
(* list, the package clause, a function declaration, or the return with    *)
(* the error that ends the loop (io.EOF at the end of the tokens).         *)
(* perr is the error Parse returned, "" while the loop is running and      *)
(* "panic" when Parse panicked and did not return.                         *)
(***************************************************************************)
ParseStart == expectType(parser, {"Keyword", "Ident", "At"})

ParseDeclFunc(start, kw) ==
  IF kw.err # "" THEN kw ELSE parseFunc(kw.p, start.val)

ParseDeclColon2(start, c2) ==
  IF c2.err # "" THEN c2 ELSE ParseDeclFunc(start, expectKeyword(c2.p, {"func"}))

ParseDeclColon1(start, c1) ==
  IF c1.err # "" THEN c1 ELSE ParseDeclColon2(start, expectType(c1.p, {"Colon"}))

\* Mutant: declarations are accepted before the package clause.
ParseDecl_NoPackage(start) ==
  ParseDeclColon1(start, expectType(start.p, {"Colon"}))

\* The declaration after its name: ':' ':' 'func', then parseFunc.
ParseDecl(start) ==
  IF start.p.unit.Ident = ""
  THEN Res(start.p, "package must be defined", NilNode)
  ELSE ParseDeclColon1(start, expectType(start.p, {"Colon"}))

\* The step of Parse that r, the result of handling the start token, ends.
ParseStep(r) == parser' = r.p /\ perr' = r.err

\* case lexer.TypeAt
ParseAt ==
  /\ perr = ""
  /\ ParseStart.err = ""
  /\ ParseStart.val.Type = "At"
  /\ ParseStep(parseAttributes(ParseStart.p, ParseStart.val))
  /\ UNCHANGED <<lowerVars, lexVars, visitVars, src, pexpr>>

\* case lexer.TypeKeyword
ParseKeyword ==
  /\ perr = ""
  /\ ParseStart.err = ""
  /\ ParseStart.val.Type = "Keyword"
  /\ ParseStep(IF ParseStart.val.Keyword = "package"
               THEN parsePackage(ParseStart.p, ParseStart.val)
               ELSE Res(ParseStart.p, "expected package keyword", NilNode))
  /\ UNCHANGED <<lowerVars, lexVars, visitVars, src, pexpr>>

\* case lexer.TypeIdent
ParseIdent ==
  /\ perr = ""
  /\ ParseStart.err = ""
  /\ ParseStart.val.Type = "Ident"
  /\ ParseStep(ParseDecl(ParseStart))
  /\ UNCHANGED <<lowerVars, lexVars, visitVars, src, pexpr>>

\* expectType failed: return p.unit, err
ParseReturn ==
  /\ perr = ""
  /\ ParseStart.err # ""
  /\ parser' = ParseStart.p
  /\ perr' = ParseStart.err
  /\ UNCHANGED <<lowerVars, lexVars, visitVars, src, pexpr>>

\* expr, err := p.parseExpression(false) on a fresh parser.
ParseExpressionStep(r) == parser' = r.p /\ perr' = r.err /\ pexpr' = r.val

ParseExpression ==
  /\ perr = ""
  /\ parser.index = 0
  /\ ParseExpressionStep(parseExpression(parser, FALSE))
  /\ UNCHANGED <<lowerVars, lexVars, visitVars, src>>

(***************************************************************************)
(* Token sequences the parser is run on.                                   *)
(***************************************************************************)
Tok(type) == [Type |-> type, StringVal |-> "", Keyword |-> "", NumberVal |-> 0]
TokIdent(s) == [Type |-> "Ident", StringVal |-> s, Keyword |-> "", NumberVal |-> 0]
TokKeyword(kw) == [Type |-> "Keyword", StringVal |-> "", Keyword |-> kw, NumberVal |-> 0]
TokNumber(n) == [Type |-> "Number", StringVal |-> "", Keyword |-> "", NumberVal |-> n]
TokString(s) == [Type |-> "String", StringVal |-> s, Keyword |-> "", NumberVal |-> 0]

RECURSIVE Flatten(_)
Flatten(ss) == IF ss = <<>> THEN <<>> ELSE Head(ss) \o Flatten(Tail(ss))

(***************************************************************************)
(* The reference grammar for expressions: one level per precedence value,  *)
(* every level left-associative.  The tree of a well-formed expression is  *)
(* found by splitting at the rightmost operator of the lowest precedence   *)
(* that is outside all parentheses.                                        *)
(***************************************************************************)
RefPrec(tt) ==
  CASE tt = "LogOr" -> 3
    [] tt = "LogAnd" -> 4
    [] tt \in {"Eq", "Ne"} -> 5
    [] tt = "BinOr" -> 6
    [] tt \in {"Lt", "Le", "Gt", "Ge"} -> 7
    [] tt = "BinAnd" -> 8
    [] tt \in {"Plus", "Minus"} -> 10
    [] tt \in {"Shl", "Shr"} -> 15
    [] tt \in {"Star", "Slash"} -> 20

RefKind(tt) ==
  CASE tt = "LogOr" -> "||" [] tt = "LogAnd" -> "&&" [] tt = "Eq" -> "=="
    [] tt = "Ne" -> "!=" [] tt = "BinOr" -> "|" [] tt = "Lt" -> "<"
    [] tt = "Le" -> "<=" [] tt = "Gt" -> ">" [] tt = "Ge" -> ">="
    [] tt = "BinAnd" -> "&" [] tt = "Plus" -> "+" [] tt = "Minus" -> "-"
    [] tt = "Shl" -> "<<" [] tt = "Shr" -> ">>" [] tt = "Star" -> "*"
    [] tt = "Slash" -> "/"

ParenDepth(toks, i) ==
  Cardinality({j \in 1..(i - 1) : toks[j].Type = "Lparen"})
    - Cardinality({j \in 1..(i - 1) : toks[j].Type = "Rparen"})

TopLevel(toks, types) ==
  {i \in DOMAIN toks : toks[i].Type \in types /\ ParenDepth(toks, i) = 0}

RECURSIVE RefTree(_)
RECURSIVE RefArgs(_)

RefArgs(toks) ==
  LET commas == TopLevel(toks, {"Comma"})
      c == CHOOSE i \in commas : \A j \in commas : i <= j
  IN IF toks = <<>> THEN <<>>
     ELSE IF commas = {} THEN <<NewArg(RefTree(toks), "unknown")>>
     ELSE <<NewArg(RefTree(SubSeq(toks, 1, c - 1)), "unknown")>>
          \o RefArgs(SubSeq(toks, c + 1, Len(toks)))

RefTree(toks) ==
  LET ops == TopLevel(toks, BinopTokens)
      lowest == {i \in ops : \A j \in ops : RefPrec(toks[i].Type) <= RefPrec(toks[j].Type)}
      split == CHOOSE i \in lowest : \A j \in lowest : j <= i
      n == Len(toks)
  IN IF ops # {}
     THEN NewBinopNode(RefKind(toks[split].Type),
                       RefTree(SubSeq(toks, 1, split - 1)),
                       RefTree(SubSeq(toks, split + 1, n)), "unknown")
     ELSE IF toks[n].Type = "Caret"
     THEN IF n = 2 THEN NewDeref(NewVariableRef(toks[1].StringVal, "unknown"), "unknown")
          ELSE NewDeref(RefTree(SubSeq(toks, 2, n - 2)), "unknown")
     ELSE IF toks[1].Type = "Lparen" THEN RefTree(SubSeq(toks, 2, n - 1))
     ELSE IF n > 1
     THEN NewCallNode(toks[1].StringVal, RefArgs(SubSeq(toks, 3, n - 1)), "unknown")
     ELSE CASE toks[1].Type = "Number" -> NewIntLiteral(toks[1].NumberVal)
            [] toks[1].Type = "String" -> NewStringLiteral(toks[1].StringVal)
            [] toks[1].Type = "Keyword" -> NewBoolLiteral(toks[1].Keyword = "true")
            [] toks[1].Type = "Ident" -> NewVariableRef(toks[1].StringVal, "unknown")

(***************************************************************************)
(* Expression inputs: chains of operands and operators, operands that are  *)
(* literals, dereferences, calls and parenthesised groups, each followed   *)
(* by at most one token that cannot continue an expression.                *)
(***************************************************************************)
Operand(i) == <<TokIdent(CASE i = 1 -> "a" [] i = 2 -> "b" [] i = 3 -> "c"
                           [] i = 4 -> "d" [] OTHER -> "e")>>

\* One operator of every precedence level.
LevelOps == {"LogOr", "LogAnd", "Eq", "BinOr", "Lt", "BinAnd", "Plus", "Shl", "Star"}

RECURSIVE Chains(_, _)
Chains(ops, k) ==
  IF k = 0 THEN {Operand(1)}
  ELSE {c \o <<Tok(op)>> \o Operand(k + 1) : c \in Chains(ops, k - 1), op \in ops}

Atoms ==
  {<<TokNumber(1)>>, <<TokString("s")>>, <<TokKeyword("true")>>,
   <<TokKeyword("false")>>, <<TokIdent("a"), Tok("Caret")>>,
   <<TokIdent("g"), Tok("Lparen"), Tok("Rparen")>>,
   <<TokIdent("g"), Tok("Lparen"), TokIdent("a"), Tok("Rparen")>>,
   <<TokIdent("g"), Tok("Lparen"), TokIdent("a"), Tok("Comma"), TokNumber(2),
     Tok("Rparen")>>,
   <<Tok("Lparen"), TokIdent("a"), Tok("Rparen")>>,
   <<Tok("Lparen"), TokIdent("a"), Tok("Rparen"), Tok("Caret")>>}

Grouped ==
  LET inner(i, op) == Operand(i) \o <<Tok(op)>> \o Operand(i + 1)
  IN UNION {
       {<<Tok("Lparen")>> \o inner(1, o1) \o <<Tok("Rparen"), Tok(o2)>> \o Operand(3),
        Operand(1) \o <<Tok(o1), Tok("Lparen")>> \o inner(2, o2) \o <<Tok("Rparen")>>,
        <<Tok("Lparen")>> \o inner(1, o1) \o <<Tok("Rparen"), Tok("Caret"), Tok(o2)>>
          \o Operand(3),
        <<TokIdent("g"), Tok("Lparen")>> \o inner(1, o1) \o <<Tok("Comma")>>
          \o Operand(3) \o <<Tok("Rparen"), Tok(o2)>> \o Operand(4),
        Operand(1) \o <<Tok(o1), TokIdent("g"), Tok("Lparen")>> \o inner(2, o2)
          \o <<Tok("Rparen")>>}
       : o1 \in BinopTokens, o2 \in BinopTokens}

Followers ==
  {<<>>, <<Tok("Lbrace")>>, <<Tok("Rparen")>>, <<Tok("Comma")>>, <<TokIdent("z")>>}

ExprSources ==
  UNION {Chains(BinopTokens, k) : k \in 0..MaxOps}
  \cup Chains(LevelOps, MaxOps + 1)
  \cup {x \o <<Tok(op)>> \o y : x \in Atoms, y \in Atoms, op \in BinopTokens}
  \cup Atoms
  \cup Grouped

(***************************************************************************)
(* Program inputs: a package clause and function declarations.  A          *)
(* declaration is described by its return type, its statements and, per    *)
(* statement, the number of instructions it stands for and the values of   *)
(* the return statements in it.                                            *)
(***************************************************************************)
Stmt(kind, toks, n, returns) ==
  [kind |-> kind, toks |-> toks, n |-> n, returns |-> returns]

ReturnExprs(ret) ==
  CASE ret \in {"", "void"} -> {<<>>}
    [] ret = "int" -> {<<TokNumber(1)>>, <<TokIdent("x"), Tok("Plus"), TokNumber(1)>>}
    [] ret = "string" -> {<<TokString("s")>>}
    [] ret = "bool" -> {<<TokKeyword("true")>>,
                        <<TokIdent("x"), Tok("Lt"), TokNumber(1)>>}
    [] ret = "ptr" -> {<<TokIdent("p")>>, <<TokIdent("p"), Tok("Plus"), TokNumber(1)>>}

ReturnValue(e) == IF e = <<>> THEN NilNode ELSE RefTree(e)

ReturnStmts(ret) ==
  UNION {
    {Stmt("return", <<TokKeyword("return")>> \o e, 1, <<ReturnValue(e)>>),
     Stmt("if", <<TokKeyword("if"), TokIdent("b"), Tok("Lbrace"), TokKeyword("return")>>
                  \o e \o <<Tok("Rbrace")>>, 1, <<ReturnValue(e)>>),
     Stmt("ifelse", <<TokKeyword("if"), TokIdent("b"), Tok("Lbrace"), TokKeyword("return")>>
                  \o e \o <<Tok("Rbrace"), TokKeyword("else"), Tok("Lbrace"),
                           TokKeyword("return")>> \o e \o <<Tok("Rbrace")>>,
          1, <<ReturnValue(e), ReturnValue(e)>>)}
    : e \in ReturnExprs(ret)}

CommonStmts ==
  {Stmt("assign", <<TokIdent("x"), Tok("Assign"), TokNumber(1)>>, 1, <<>>),
   Stmt("declare", <<TokIdent("y"), Tok("Colon"), TokKeyword("int"), Tok("Assign"),
                     TokNumber(1)>>, 2, <<>>),
   Stmt("call", <<TokIdent("g"), Tok("Lparen"), TokIdent("x"), Tok("Rparen")>>, 1, <<>>),
   Stmt("for", <<TokKeyword("for"), TokIdent("x"), Tok("Lt"), TokNumber(1), Tok("Lbrace"),
                 TokIdent("x"), Tok("Assign"), TokNumber(1), Tok("Rbrace")>>, 1, <<>>)}

\* A parameter: its attribute lists, its name and the tokens of its type.
Param(name, attrs, type) == [name |-> name, attrs |-> attrs, type |-> type]

DefaultParams ==
  <<Param("x", <<>>, <<TokKeyword("int")>>),
    Param("p", <<>>, <<Tok("Caret"), TokKeyword("int")>>),
    Param("b", <<>>, <<TokKeyword("bool")>>)>>

FuncSrc(name, attrs, ret, body) ==
  [name |-> name, attrs |-> attrs, extern |-> FALSE, params |-> DefaultParams,
   ret |-> ret, body |-> body]

\* The attribute list @( entries ), entries separated by commas.
RECURSIVE AttrEntries(_)
AttrEntries(entries) ==
  IF Len(entries) = 0 THEN <<>>
  ELSE IF Len(entries) = 1 THEN Head(entries)
  ELSE Head(entries) \o <<Tok("Comma")>> \o AttrEntries(Tail(entries))

AttrList(entries) ==
  <<Tok("At"), Tok("Lparen")>> \o AttrEntries(entries) \o <<Tok("Rparen")>>

ExternSrc ==
  [name |-> "g",
   attrs |-> AttrList(<<<<TokIdent("extern")>>,
                        <<TokIdent("linkname"), Tok("Assign"), TokString("puts")>>>>),
   extern |-> TRUE, params |-> <<Param("m", <<>>, <<TokKeyword("string")>>)>>,
   ret |-> "int", body |-> <<>>]

RetToks(ret) ==
  CASE ret = "" -> <<>>
    [] ret = "ptr" -> <<Tok("Arrow"), Tok("Caret"), TokKeyword("int")>>
    [] OTHER -> <<Tok("Arrow"), TokKeyword(ret)>>

RECURSIVE ParamToks(_)
ParamToks(params) ==
  IF params = <<>> THEN <<>>
  ELSE Head(params).attrs \o <<TokIdent(Head(params).name), Tok("Colon")>>
       \o Head(params).type
       \o (IF Len(params) > 1 THEN <<Tok("Comma")>> ELSE <<>>)
       \o ParamToks(Tail(params))

RenderFunc(d) ==
  d.attrs \o <<TokIdent(d.name), Tok("Colon"), Tok("Colon"), TokKeyword("func"),
               Tok("Lparen")>>
  \o ParamToks(d.params)
  \o <<Tok("Rparen")>> \o RetToks(d.ret)
  \o (IF d.extern THEN <<>>
      ELSE <<Tok("Lbrace")>>
           \o Flatten([j \in DOMAIN d.body |-> d.body[j].toks])
           \o <<Tok("Rbrace")>>)

\* The package clause written after k declarations.
PackageClause(k) ==
  <<TokKeyword("package"), TokIdent(IF k = 0 THEN "main" ELSE "other")>>

\* The declarations after the first k, with the package clauses between;
\* rest holds the tokens written after the last declaration.
RECURSIVE RenderFrom(_, _)
RenderFrom(s, k) ==
  (IF k \in s.pkgAt THEN PackageClause(k) ELSE <<>>)
  \o (IF k < Len(s.decls)
      THEN RenderFunc(s.decls[k + 1]) \o RenderFrom(s, k + 1)
      ELSE s.rest)

Render(s) == s.unitAttrs \o RenderFrom(s, 0)

RetTypes == {"", "void", "int", "string", "bool", "ptr"}

SingleFuncs ==
  UNION {{FuncSrc("f", <<>>, ret, body)
            : body \in SeqsUpTo(CommonStmts \cup ReturnStmts(ret), MaxStmts)}
         : ret \in RetTypes}

\* Functions used in units of several declarations.
UnitFuncs ==
  LET ret1 == Stmt("return", <<TokKeyword("return"), TokNumber(1)>>, 1,
                   <<NewIntLiteral(1)>>)
      assign == Stmt("assign", <<TokIdent("x"), Tok("Assign"), TokNumber(1)>>, 1, <<>>)
      ifelse == CHOOSE s \in ReturnStmts("int") :
                  s.kind = "ifelse" /\ s.returns[1] = NewIntLiteral(1)
  IN {ExternSrc,
      FuncSrc("h", <<>>, "", <<assign>>),
      FuncSrc("main", <<Tok("At"), Tok("Lparen"), TokIdent("export"), Tok("Rparen")>>,
              "int", <<assign, ret1>>),
      FuncSrc("k", <<>>, "int", <<assign, ifelse>>)}

\* Attribute lists before the package clause, before a declaration and
\* before a parameter: one list, two lists in a row, entries with a string
\* value, an integer value and no value.
Entry(key) == <<TokIdent(key)>>
EntryString(key, s) == <<TokIdent(key), Tok("Assign"), TokString(s)>>
EntryInt(key, n) == <<TokIdent(key), Tok("Assign"), TokNumber(n)>>

\* The attributes a run of attribute lists writes: per key the value of its
\* last entry.
AttrsOf(toks) ==
  LET at == {i \in DOMAIN toks : toks[i].Type = "Ident"}
      last(k) == CHOOSE i \in at :
                   /\ toks[i].StringVal = k
                   /\ \A j \in at : toks[j].StringVal = k => j <= i
      value(i) == IF toks[i + 1].Type # "Assign" THEN AttrNone
                  ELSE IF toks[i + 2].Type = "String"
                  THEN AttrString(toks[i + 2].StringVal)
                  ELSE AttrInt(toks[i + 2].NumberVal)
  IN [k \in {toks[i].StringVal : i \in at} |-> value(last(k))]

UnitAttrLists ==
  {<<>>, AttrList(<<Entry("private")>>),
   AttrList(<<EntryInt("inline", 2)>>) \o AttrList(<<Entry("pure")>>)}

FuncAttrLists ==
  {<<>>, AttrList(<<Entry("export")>>),
   AttrList(<<Entry("pure")>>) \o AttrList(<<EntryString("linkname", "k")>>),
   AttrList(<<EntryInt("linkname", 5)>>),
   AttrList(<<Entry("linkname")>>)}

ParamLists ==
  {DefaultParams,
   [DefaultParams EXCEPT ![1].attrs = AttrList(<<EntryInt("private", 1)>>)],
   [DefaultParams EXCEPT ![2].attrs = AttrList(<<Entry("inline")>>)]}

AttrFuncs ==
  {[FuncSrc("f", a, "", <<>>) EXCEPT !.params = ps]
     : a \in FuncAttrLists, ps \in ParamLists}
  \cup {ExternSrc,
        [ExternSrc EXCEPT !.params[1].attrs = AttrList(<<Entry("pure")>>)]}

AttrSources ==
  {[NoSource EXCEPT !.decls = fs, !.unitAttrs = u]
     : fs \in {q \in SeqsUpTo(AttrFuncs, MaxAttrDecls) : Len(q) >= 1},
       u \in UnitAttrLists}

\* Declarations: y : T = e, y : T and y := e, T with and without carets.
DeclTypes ==
  {<<TokKeyword("int")>>, <<Tok("Caret"), TokKeyword("int")>>,
   <<Tok("Caret"), Tok("Caret"), TokKeyword("string")>>, <<TokKeyword("bool")>>}

DeclInits ==
  {<<>>, <<Tok("Assign"), TokNumber(1)>>,
   <<Tok("Assign"), TokIdent("a"), Tok("Plus"), TokNumber(1)>>}

DeclStmts ==
  {Stmt("declare", <<TokIdent("y"), Tok("Colon")>> \o t \o e,
        IF e = <<>> THEN 1 ELSE 2, <<>>) : t \in DeclTypes, e \in DeclInits}
  \cup {Stmt("declare", <<TokIdent("y"), Tok("Colon")>> \o e, 2, <<>>)
          : e \in {<<Tok("Assign"), TokNumber(1)>>,
                   <<Tok("Assign"), TokIdent("g"), Tok("Lparen"), TokIdent("a"),
                     Tok("Rparen")>>}}

DeclareSources ==
  {[NoSource EXCEPT !.decls = <<FuncSrc("f", <<>>, "", body)>>]
     : body \in {q \in SeqsUpTo(DeclStmts \cup {s \in CommonStmts : s.kind = "assign"},
                                MaxStmts) : Len(q) >= 1}}

\* Statements that start like an assignment through a pointer: x^ = e and
\* (e)^ = e, and statements with such a start or a parenthesised start that
\* are no assignment.
LValueStmts ==
  {Stmt("deref", <<TokIdent("x"), Tok("Caret"), Tok("Assign"), TokNumber(1)>>, 1, <<>>),
   Stmt("deref", <<Tok("Lparen"), TokIdent("p"), Tok("Plus"), TokNumber(1),
                   Tok("Rparen"), Tok("Caret"), Tok("Assign"), TokNumber(1)>>, 1, <<>>),
   Stmt("notassign", <<Tok("Lparen"), TokIdent("a"), Tok("Rparen"), Tok("Assign"),
                       TokNumber(1)>>, 1, <<>>),
   Stmt("notassign", <<TokIdent("x"), Tok("Caret"), Tok("Lparen"), TokNumber(1),
                       Tok("Rparen")>>, 1, <<>>),
   Stmt("notassign", <<TokIdent("x"), Tok("Caret"), TokIdent("y")>>, 1, <<>>),
   Stmt("notassign", <<Tok("Lparen"), TokIdent("a"), Tok("Rparen"), Tok("Caret"),
                       Tok("Lparen"), TokNumber(1), Tok("Rparen")>>, 1, <<>>)}

LValueSources ==
  {[NoSource EXCEPT !.decls = <<FuncSrc("f", <<>>, "", body)>>]
     : body \in {q \in SeqsUpTo(LValueStmts \cup {s \in CommonStmts : s.kind = "assign"},
                                MaxStmts) : Len(q) >= 1}}

\* A statement (B)^ = 1 whose token B has the type Bool and a keyword that
\* is neither true nor false: parsePrimary panics on it.
PanicSources ==
  {[NoSource EXCEPT !.decls =
      <<FuncSrc("f", <<>>, "",
                <<Stmt("panics",
                       <<Tok("Lparen"), Tok("Bool"), Tok("Rparen"), Tok("Caret"),
                         Tok("Assign"), TokNumber(1)>>, 1, <<>>)>>)>>]}

\* Tokens that start no statement, written where a statement is expected.
StrayStmts ==
  {Stmt("stray", <<t>>, 0, <<>>)
     : t \in {TokNumber(1), TokString("s"), Tok("Plus"), Tok("Semicolon"),
              TokKeyword("true"), TokKeyword("else"), TokKeyword("int")}}

\* A stray token alone, before or after an assignment, or before or after
\* another stray token.
StrayBodies ==
  {<<t>> : t \in StrayStmts}
  \cup {<<t, u>> : t \in StrayStmts, u \in StrayStmts}
  \cup UNION {{<<t, a>>, <<a, t>>}
               : t \in StrayStmts, a \in {s \in CommonStmts : s.kind = "assign"}}

StraySources ==
  {[NoSource EXCEPT !.decls = <<FuncSrc("f", <<>>, "", body)>>]
     : body \in StrayBodies}

\* The proper, non-empty prefixes of a token sequence.
Prefixes(toks) == {SubSeq(toks, 1, n) : n \in 1..(Len(toks) - 1)}

\* The tokens of
\*   @(export, linkname = "g")
\*   g :: func(x: int, b: bool) {
\*     if x = 1; b { g(x, 1 + x) } else { }
\*     for b; x = x + 1 { }
\*   }
\* a declaration that goes through every loop of the parser.
ControlFuncTokens ==
  <<Tok("At"), Tok("Lparen"), TokIdent("export"), Tok("Comma"),
    TokIdent("linkname"), Tok("Assign"), TokString("g"), Tok("Rparen"),
    TokIdent("g"), Tok("Colon"), Tok("Colon"), TokKeyword("func"),
    Tok("Lparen"), TokIdent("x"), Tok("Colon"), TokKeyword("int"), Tok("Comma"),
    TokIdent("b"), Tok("Colon"), TokKeyword("bool"), Tok("Rparen"),
    Tok("Lbrace"),
    TokKeyword("if"), TokIdent("x"), Tok("Assign"), TokNumber(1),
    Tok("Semicolon"), TokIdent("b"), Tok("Lbrace"),
    TokIdent("g"), Tok("Lparen"), TokIdent("x"), Tok("Comma"), TokNumber(1),
    Tok("Plus"), TokIdent("x"), Tok("Rparen"), Tok("Rbrace"),
    TokKeyword("else"), Tok("Lbrace"), Tok("Rbrace"),
    TokKeyword("for"), TokIdent("b"), Tok("Semicolon"), TokIdent("x"),
    Tok("Assign"), TokIdent("x"), Tok("Plus"), TokNumber(1),
    Tok("Lbrace"), Tok("Rbrace"),
    Tok("Rbrace")>>

\* Units whose tokens end in the middle of a construct: after the keyword
\* package, or anywhere inside a function declaration that follows a
\* complete one.
TruncatedSources ==
  {[NoSource EXCEPT !.pkgAt = {}, !.rest = <<TokKeyword("package")>>]}
  \cup {[NoSource EXCEPT !.rest = r]
          : r \in Prefixes(ControlFuncTokens)}
  \cup {[NoSource EXCEPT !.decls = <<d>>, !.rest = r]
          : d \in {f \in UnitFuncs : f.name = "main"},
            r \in Prefixes(RenderFunc(
                   FuncSrc("f", <<>>, "int",
                           <<Stmt("assign", <<TokIdent("x"), Tok("Assign"), TokNumber(1)>>,
                                  1, <<>>),
                             Stmt("return", <<TokKeyword("return"), TokNumber(1)>>, 1,
                                  <<NewIntLiteral(1)>>)>>)))}

\* Units with no package clause, a late one or several: pkgAt holds the
\* numbers of declarations after which a clause is written.
PackageSources ==
  UNION {{[NoSource EXCEPT !.decls = fs, !.pkgAt = at, !.unitAttrs = u]
            : at \in SUBSET (0..Len(fs)),
              u \in {<<>>, AttrList(<<Entry("private")>>)}}
         : fs \in {q \in SeqsUpTo({f \in UnitFuncs : f.name \in {"h", "main"}}, 2)
                     : Len(q) >= 1}}

ProgramSources ==
  {[NoSource EXCEPT !.decls = <<f>>] : f \in SingleFuncs}
  \cup PackageSources
  \cup DeclareSources
  \cup LValueSources
  \cup StraySources
  \cup TruncatedSources
  \cup PanicSources
  \cup {[NoSource EXCEPT !.decls = fs]
          : fs \in {q \in SeqsUpTo(UnitFuncs, MaxFuncs) : Len(q) >= 2}}
  \cup AttrSources

InitParse ==
  /\ src \in ProgramSources
  /\ parser = New(Render(src))
  /\ perr = ""
  /\ pexpr = NilNode
  /\ tokenizer = NewTokenizer(NewScanner(<<>>))
  /\ tokens = <<>>
  /\ tret = NoReturn
  /\ visited = NilNode
  /\ entry = NoVisitor
  /\ outcome = NoOutcome
  /\ cu = [Funcs |-> <<>>]
  /\ v = NoVisitor
  /\ fi = 0
  /\ runs = <<>>

NextParse == ParseAt \/ ParseKeyword \/ ParseIdent \/ ParseReturn

SpecParse == InitParse /\ [][NextParse]_vars

InitExpr ==
  /\ src \in {[NoSource EXCEPT !.expr = e, !.rest = r] : e \in ExprSources, r \in Followers}
  /\ parser = New(src.expr \o src.rest)
  /\ perr = ""
  /\ pexpr = NilNode
  /\ tokenizer = NewTokenizer(NewScanner(<<>>))
  /\ tokens = <<>>
  /\ tret = NoReturn
  /\ visited = NilNode
  /\ entry = NoVisitor
  /\ outcome = NoOutcome
  /\ cu = [Funcs |-> <<>>]
  /\ v = NoVisitor
  /\ fi = 0
  /\ runs = <<>>

NextExpr == ParseExpression

SpecExpr == InitExpr /\ [][NextExpr]_vars


(***************************************************************************)
(* Tokens: the loop around next.  One step is one iteration: a token is    *)
(* appended, or Tokens returns (the tokens and nil on io.EOF, nil and the  *)
(* error otherwise).  tret is what Tokens returned, NoReturn while the     *)
(* loop is running.                                                        *)
(***************************************************************************)
TokensAppendStep(r) ==
  /\ r.err = ""
  /\ tokenizer' = r.t
  /\ tokens' = Append(tokens, r.val)
  /\ UNCHANGED tret

TokensAppend ==
  /\ tret = NoReturn
  /\ TokensAppendStep(Tokenizer_next(tokenizer))
  /\ UNCHANGED <<lowerVars, parseVars, visitVars>>

TokensReturnStep(r) ==
  /\ r.err # ""
  /\ tokenizer' = r.t
  /\ tret' = IF r.err = "EOF" THEN [tokens |-> tokens, err |-> ""]
             ELSE [tokens |-> <<>>, err |-> r.err]
  /\ UNCHANGED tokens

TokensReturn ==
  /\ tret = NoReturn
  /\ TokensReturnStep(Tokenizer_next(tokenizer))
  /\ UNCHANGED <<lowerVars, parseVars, visitVars>>

(***************************************************************************)
(* Inputs of the tokenizer: every character sequence up to MaxInput over   *)
(* an alphabet with a letter, a digit, the characters of comments, arrows, *)
(* negative numbers and strings, white space and a character of no token,  *)
(* and some longer texts.                                                  *)
(***************************************************************************)
Alphabet == {"x", "1", "-", ">", "/", "\"", "\\", " ", "\n", "#"}

Texts ==
  {<<"i", "n", "t", " ", "x", "\n">>,
   <<"f", "(", "-", "1", ")", "-", ">", "v", "o", "i", "d", "\n">>,
   <<"@", "(", "a", "=", "\"", "b", " ", "\\", "\"", "\"", ")", "\n">>,
   <<"x", "_", "1", ":", "=", "1", "0", "+", "y", " ", "/", "/", "c", "\r">>,
   <<"{", "r", "e", "t", "u", "r", "n", " ", "0", ",", "$", "}", "\t", "\n">>,
   <<"(", "x", ")", "-", "1", " ">>,
   <<"9", "2", "2", "3", "3", "7", "2", "0", "3", "6", "8", "5", "4", "7", "7",
     "5", "8", "0", "8", " ">>}

LexInputs == SeqsUpTo(Alphabet, MaxInput) \cup Texts

InitLex ==
  /\ \E data \in LexInputs : tokenizer = NewTokenizer(NewScanner(data))
  /\ tokens = <<>>
  /\ tret = NoReturn
  /\ visited = NilNode
  /\ entry = NoVisitor
  /\ outcome = NoOutcome
  /\ src = NoSource
  /\ parser = New(<<>>)
  /\ perr = ""
  /\ pexpr = NilNode
  /\ cu = [Funcs |-> <<>>]
  /\ v = NoVisitor
  /\ fi = 0
  /\ runs = <<>>

NextLex == TokensAppend \/ TokensReturn

SpecLex == InitLex /\ [][NextLex]_vars

(***************************************************************************)
(* The pipeline: Parse, the type checker, Lower.  The type checker turns   *)
(* the parsed unit into the typed AST: every type becomes its kind, a      *)
(* variable gets the type of the parameter it names, a call the return     *)
(* type of the function it names.  fi = -1 until the unit is checked.      *)
(***************************************************************************)
Scope(params) ==
  [id \in {params[j].Ident : j \in DOMAIN params} |->
     (CHOOSE j \in DOMAIN params : params[j].Ident = id)]

TypeOfVar(params, id) == params[Scope(params)[id]].Type.Kind

ReturnKind(funcs, id) ==
  funcs[CHOOSE i \in DOMAIN funcs : funcs[i].Ident = id].ReturnType.Kind

RECURSIVE CheckExpr(_, _, _)
CheckArg(funcs, params, e) == NewArg(e, e.Type)

CheckExpr(funcs, params, e) ==
  CASE e.k = "Literal" -> e
    [] e.k = "VariableRef" -> NewVariableRef(e.Ident, TypeOfVar(params, e.Ident))
    [] e.k = "Deref" -> NewDeref(CheckExpr(funcs, params, e.Expr), "int")
    [] e.k = "Binop" -> TBinop(e.Operation, CheckExpr(funcs, params, e.Lhs),
                               CheckExpr(funcs, params, e.Rhs))
    [] e.k = "Call" ->
         NewCallNode(e.Ident,
                     [j \in DOMAIN e.Args |->
                        CheckArg(funcs, params, CheckExpr(funcs, params, e.Args[j].Value))],
                     ReturnKind(funcs, e.Ident))
    [] OTHER -> e

RECURSIVE CheckInstr(_, _, _)
CheckInstrs(funcs, params, ins) ==
  [j \in DOMAIN ins |-> CheckInstr(funcs, params, ins[j])]

CheckInstr(funcs, params, n) ==
  CASE n.k = "Return" -> NewReturn(CheckExpr(funcs, params, n.Value))
    [] n.k = "Assign" -> NewAssign(CheckExpr(funcs, params, n.LHS),
                                   CheckExpr(funcs, params, n.Value))
    [] n.k = "Declare" -> NewDeclare(n.Ident, n.Type.Kind)
    [] n.k = "Body" -> NewBody(CheckInstrs(funcs, params, n.Instructions))
    [] n.k = "If" -> NewIf(CheckInstrs(funcs, params, n.Init),
                           CheckExpr(funcs, params, n.Cond),
                           CheckInstr(funcs, params, n.Then),
                           CheckInstr(funcs, params, n.Else))
    [] n.k = "For" -> NewFor(CheckInstrs(funcs, params, n.Init),
                             CheckExpr(funcs, params, n.Cond),
                             CheckInstrs(funcs, params, n.Post),
                             CheckInstr(funcs, params, n.Body))
    [] OTHER -> CheckExpr(funcs, params, n)

CheckFunc(funcs, fd) ==
  NewAstFuncDef(fd.Ident, fd.Attributes,
                [j \in DOMAIN fd.Params |->
                   NewFuncParam(fd.Params[j].Ident, fd.Params[j].Type.Kind)],
                fd.ReturnType.Kind,
                CheckInstr(funcs, fd.Params, fd.Body))

Check(unit) ==
  [Funcs |-> [i \in DOMAIN unit.Funcs |-> CheckFunc(unit.Funcs, unit.Funcs[i])]]

\* Parse returned at the end of the tokens: the unit is checked and handed
\* to Lower.
TypeCheck ==
  /\ fi = -1
  /\ perr = "EOF"
  /\ cu' = Check(parser.unit)
  /\ fi' = 0
  /\ UNCHANGED <<v, runs, parseVars, lexVars, visitVars>>

\* Units for the pipeline: functions with and without a body, attributes
\* and a return type.
PipelineFuncs ==
  UnitFuncs
  \cup {FuncSrc("s", <<>>, "string",
                <<Stmt("return", <<TokKeyword("return"), TokString("s")>>, 1,
                       <<NewStringLiteral("s")>>)>>),
        FuncSrc("t", <<>>, "bool",
                <<Stmt("return", <<TokKeyword("return"), TokKeyword("true")>>, 1,
                       <<NewBoolLiteral(TRUE)>>)>>),
        FuncSrc("u", <<>>, "void", <<Stmt("return", <<TokKeyword("return")>>, 1,
                                          <<NilNode>>)>>)}

PipelineSources ==
  {[NoSource EXCEPT !.decls = fs]
     : fs \in {q \in SeqsUpTo(PipelineFuncs, MaxFuncs) : Len(q) >= 2}}
  \cup AttrSources

InitPipeline ==
  /\ src \in PipelineSources
  /\ parser = New(Render(src))
  /\ perr = ""
  /\ pexpr = NilNode
  /\ tokenizer = NewTokenizer(NewScanner(<<>>))
  /\ tokens = <<>>
  /\ tret = NoReturn
  /\ visited = NilNode
  /\ entry = NoVisitor
  /\ outcome = NoOutcome
  /\ cu = [Funcs |-> <<>>]
  /\ v = NoVisitor
  /\ fi = -1
  /\ runs = <<>>

NextPipeline == NextParse \/ TypeCheck \/ Next

SpecPipeline == InitPipeline /\ [][NextPipeline]_vars

(***************************************************************************)
(* One visit: node.Accept(v) from a visitor state a function's lowering    *)
(* can be in.  The visitor at entry is the one VisitFuncDef has after the  *)
(* statements of a prefix of the body.                                     *)
(***************************************************************************)
EntryPrefixes ==
  {<<>>,
   <<NewReturn(VarX)>>,
   <<NewAssign(VarX, NewIntLiteral(1))>>,
   <<NewIf(<<>>, VarB, NewBody(<<>>), NilNode)>>,
   <<NewAssign(VarX, NewCallNode("g", <<NewArg(NewStringLiteral("s"), "string")>>, "int"))>>}

EntryVisitors == {AcceptAll(newVisitor, pre) : pre \in EntryPrefixes}

VarY == NewVariableRef("y", "int")

\* if and for statements with initialisers and post statements.
StmtsWithInit ==
  {NewIf(init, c, NewBody(t), e) :
     init \in {<<NewDeclare("y", "int"), NewAssign(VarY, NewIntLiteral(1))>>,
               <<NewAssign(VarX, NewDeref(VarP, "int"))>>},
     c \in Conds,
     t \in {<<>>, <<NewReturn(VarX)>>, <<NewAssign(VarX, NewIntLiteral(1))>>},
     e \in {NilNode, NewBody(<<>>), NewBody(<<NewReturn(VarX)>>)}}
  \cup
  {NewFor(init, c, post, NewBody(t)) :
     init \in {<<>>, <<NewDeclare("y", "int"), NewAssign(VarY, NewIntLiteral(1))>>},
     c \in Conds,
     post \in {<<>>, <<NewAssign(VarX, NewDeref(VarP, "int"))>>},
     t \in {<<>>, <<NewReturn(VarX)>>, <<NewAssign(VarX, NewIntLiteral(1))>>}}

\* Assignments through a pointer whose two sides both lower to instructions.
DerefAssigns ==
  {NewAssign(NewDeref(q, "int"), e) : q \in PtrExprs(1), e \in IntExprs(1)}

VisitNodes ==
  Stmts(MaxDepth) \cup ExprStmts \cup StmtsWithInit \cup DerefAssigns
  \cup IntExprs(MaxExprDepth) \cup BoolExprs(MaxExprDepth) \cup PtrExprs(MaxExprDepth)

InitVisit ==
  /\ cu = [Funcs |-> <<>>]
  /\ v = NoVisitor
  /\ fi = 0
  /\ runs = <<>>
  /\ src = NoSource
  /\ parser = New(<<>>)
  /\ perr = ""
  /\ pexpr = NilNode
  /\ tokenizer = NewTokenizer(NewScanner(<<>>))
  /\ tokens = <<>>
  /\ tret = NoReturn
  /\ visited \in VisitNodes
  /\ entry \in EntryVisitors
  /\ outcome = NoOutcome

\* visited.Accept(v) with v = entry.
Visit ==
  /\ ~outcome.done
  /\ outcome' = [done |-> TRUE, v |-> Accept(entry, visited)]
  /\ UNCHANGED <<lowerVars, parseVars, lexVars, visited, entry>>

NextVisit == Visit

SpecVisit == InitVisit /\ [][NextVisit]_vars


(***************************************************************************)
(* Properties of the lowering.                                             *)
(***************************************************************************)
\* The instruction list of an IR function (empty for a function without body).
Instrs(f) == IF f.Blocks = <<>> THEN <<>> ELSE f.Blocks[1].Instructions

Lowered == {Instrs(v.unit.FuncDefs[i]) : i \in DOMAIN v.unit.FuncDefs}

LabelName(n, tag) == "L" \o Pad4(n) \o "_" \o tag

LabelCount(ins, name) ==
  Cardinality({j \in DOMAIN ins : ins[j].i = "Label" /\ ins[j].name = name})

NumLabels(ins) == Cardinality({j \in DOMAIN ins : ins[j].i = "Label"})

IsBlockLabel(ins, j) ==
  /\ ins[j].i = "Label"
  /\ \E n \in 1..Len(ins) : ins[j].name = LabelName(n, "block")

\* The destinations of an instruction: the local identifiers it assigns.
Dests(instr) ==
  CASE instr.i \in {"Binop", "Load"} -> {instr.dest.id}
    [] instr.i = "Call" /\ instr.ret # "" -> {instr.ret}
    [] OTHER -> {}

AssignCount(ins, id) == Cardinality({j \in DOMAIN ins : id \in Dests(ins[j])})

\* C1: in every lowered function, every label a Jnz (both targets) or a Jmp
\* names appears as a Label instruction exactly once in that function.
C1_JumpTargetsDefinedOnce ==
  \A ins \in Lowered :
    \A j \in DOMAIN ins :
      /\ ins[j].i = "Jnz" => /\ LabelCount(ins, ins[j].ifTrue) = 1
                             /\ LabelCount(ins, ins[j].ifFalse) = 1
      /\ ins[j].i = "Jmp" => LabelCount(ins, ins[j].target) = 1

\* A function with an if or for around a nested if/for whose condition is a
\* short-circuit expression has been lowered: at least four conditional jumps.
C1_Witness ==
  \E ins \in Lowered :
    /\ Cardinality({j \in DOMAIN ins : ins[j].i = "Jnz"}) >= 4
    /\ \E j \in DOMAIN ins : ins[j].i = "Jmp" /\ ins[j].target = LabelName(1, "for")
    /\ \E j \in DOMAIN ins : IsBlockLabel(ins, j)

\* C2: in every lowered function, every local identifier that is assigned at
\* all is the destination of exactly one instruction.
C2_SingleAssignment ==
  \A ins \in Lowered :
    \A j \in DOMAIN ins :
      \A id \in Dests(ins[j]) : AssignCount(ins, id) = 1

\* C3: the instruction right after a Ret is a Label; a synthetic block label
\* stands only between a Ret and a non-Label instruction.
C3_LabelAfterRet ==
  \A ins \in Lowered :
    \A j \in DOMAIN ins :
      /\ (ins[j].i = "Ret" /\ j < Len(ins)) => ins[j + 1].i = "Label"
      /\ IsBlockLabel(ins, j) =>
           /\ j > 1 /\ ins[j - 1].i = "Ret"
           /\ j < Len(ins) /\ ins[j + 1].i # "Label"

\* A lowered function where a Ret is followed by a synthetic block label and
\* another Ret is followed directly by an ordinary label.
C3_Witness ==
  \E ins \in Lowered :
    /\ \E j \in 1..(Len(ins) - 1) : ins[j].i = "Ret" /\ IsBlockLabel(ins, j + 1)
    /\ \E j \in 1..(Len(ins) - 1) :
         /\ ins[j].i = "Ret"
         /\ ins[j + 1].i = "Label"
         /\ ~IsBlockLabel(ins, j + 1)

\* C4: within one lowered function the Label instructions have pairwise
\* distinct names.
C4_LabelsDistinct ==
  \A ins \in Lowered :
    \A j1, j2 \in DOMAIN ins :
      (ins[j1].i = "Label" /\ ins[j2].i = "Label" /\ j1 # j2)
        => ins[j1].name # ins[j2].name

\* A lowered function with at least nine labels, two of them block labels.
C4_Witness ==
  \E ins \in Lowered :
    /\ NumLabels(ins) >= 9
    /\ Cardinality({j \in DOMAIN ins : IsBlockLabel(ins, j)}) >= 2

OwnCounters(fd) == VisitFuncDef(newVisitor, fd)

RECURSIVE SumTmp(_, _)
SumTmp(funcs, n) ==
  IF n = 0 THEN 0 ELSE SumTmp(funcs, n - 1) + OwnCounters(funcs[n]).tmpCounter

RECURSIVE CalledIn(_)
CalledInAll(nodes) == UNION {CalledIn(nodes[i]) : i \in DOMAIN nodes}
CalledIn(node) ==
  CASE node.k = "Body" -> CalledInAll(node.Instructions)
    [] node.k = "Assign" -> CalledIn(node.LHS) \cup CalledIn(node.Value)
    [] node.k = "Call" ->
         {node.Ident} \cup UNION {CalledIn(node.Args[i].Value) : i \in DOMAIN node.Args}
    [] node.k = "Return" -> CalledIn(node.Value)
    [] node.k = "Binop" -> CalledIn(node.Lhs) \cup CalledIn(node.Rhs)
    [] node.k = "If" ->
         CalledInAll(node.Init) \cup CalledIn(node.Cond) \cup CalledIn(node.Then)
         \cup CalledIn(node.Else)
    [] node.k = "For" ->
         CalledInAll(node.Init) \cup CalledIn(node.Cond) \cup CalledInAll(node.Post)
         \cup CalledIn(node.Body)
    [] node.k = "Deref" -> CalledIn(node.Expr)
    [] OTHER -> {}

\* The symbol a call of function name must use: the link name of the unit's
\* function of that name if it carries one, else the name.
CalleeSymbol(name) ==
  LET fd == CHOOSE f \in {cu.Funcs[i] : i \in DOMAIN cu.Funcs} : f.Ident = name
  IN IF "linkname" \in DOMAIN fd.Attributes
     THEN fd.Attributes["linkname"].s
     ELSE name

\* C7: the callee symbols of the Call instructions of a lowered function are
\* the link names (or, without one, the names) of the functions it calls,
\* wherever in the unit those are declared.
C7_CalleeIsLinkName ==
  \A i \in DOMAIN v.unit.FuncDefs :
    LET ins == Instrs(v.unit.FuncDefs[i])
    IN {ins[j].callee.id : j \in {n \in DOMAIN ins : ins[n].i = "Call"}}
         = {CalleeSymbol(name) : name \in CalledIn(cu.Funcs[i].Body)}

(***************************************************************************)
(* Properties of the parser.                                               *)
(***************************************************************************)
IsVoid(d) == d.ret \in {"", "void"}

EndsWithReturn(d) == Len(d.body) > 0 /\ d.body[Len(d.body)].kind = "return"

RECURSIVE NumInstrs(_)
NumInstrs(body) == IF body = <<>> THEN 0 ELSE Head(body).n + NumInstrs(Tail(body))

\* C8: for a non-extern function whose body is empty or does not end, at
\* the top level, in a return statement: if it returns Void and is parsed,
\* its instructions are those of the body followed by one appended empty
\* Return; if it does not return Void it is never added to the unit and
\* Parse ends with an error other than the end of the input.
C8_ImplicitReturnOrError ==
  \A i \in DOMAIN src.decls :
    LET d == src.decls[i]
    IN (~d.extern /\ ~EndsWithReturn(d)) =>
         IF IsVoid(d)
         THEN i <= Len(parser.unit.Funcs) =>
                LET ins == parser.unit.Funcs[i].Body.Instructions
                IN /\ Len(ins) = NumInstrs(d.body) + 1
                   /\ ins[Len(ins)] = NewReturn(NilNode)
                   /\ Len(ins) > 1 => ins[Len(ins) - 1].k # "Return"
         ELSE /\ i > Len(parser.unit.Funcs)
              /\ perr # "" => perr # "EOF"

\* A unit whose first function got the implicit Return and whose second
\* function, ending in an if/else that returns in both branches, was
\* rejected.
C8_Witness ==
  /\ perr = "expected return statement"
  /\ Len(parser.unit.Funcs) = 1
  /\ Len(src.decls) >= 2
  /\ IsVoid(src.decls[1]) /\ ~src.decls[1].extern
  /\ src.decls[1].body # <<>> /\ ~EndsWithReturn(src.decls[1])
  /\ LET ins == parser.unit.Funcs[1].Body.Instructions
     IN Len(ins) = 2 /\ ins[2] = NewReturn(NilNode)
  /\ ~IsVoid(src.decls[2]) /\ ~src.decls[2].extern
  /\ src.decls[2].body[Len(src.decls[2].body)].kind = "ifelse"

\* The values of the Return instructions of an instruction list, in order,
\* nested blocks included.
RECURSIVE ReturnValues(_)
ReturnValues(ins) ==
  IF ins = <<>> THEN <<>>
  ELSE LET h == Head(ins)
           here == CASE h.k = "Return" -> <<h.Value>>
                     [] h.k = "If" ->
                          ReturnValues(h.Then.Instructions)
                          \o (CASE h.Else.k = "Body" -> ReturnValues(h.Else.Instructions)
                                [] h.Else.k = "If" -> ReturnValues(<<h.Else>>)
                                [] OTHER -> <<>>)
                     [] h.k = "For" -> ReturnValues(h.Body.Instructions)
                     [] OTHER -> <<>>
       IN here \o ReturnValues(Tail(ins))

ExpectedReturns(body) == Flatten([j \in DOMAIN body |-> body[j].returns])

\* C9: in every parsed function whose declared return type is not Void,
\* the Return instructions carry, in order, the expressions of the return
\* statements of its source; none of them is empty.
C9_ReturnCarriesExpr ==
  \A i \in 1..Len(parser.unit.Funcs) :
    LET d == src.decls[i]
    IN (~d.extern /\ ~IsVoid(d)) =>
         ReturnValues(parser.unit.Funcs[i].Body.Instructions) = ExpectedReturns(d.body)

ExprParsed == parser.index > 0 \/ perr # ""

\* C10: parseExpression returns without error the tree of the reference
\* grammar (higher precedence binds tighter, equal precedence groups to the
\* left, parentheses group) and leaves the cursor right after the last
\* token of the expression.
C10_PrattMatchesReference ==
  ExprParsed =>
    /\ perr = ""
    /\ pexpr = RefTree(src.expr)
    /\ parser.index = Len(src.expr)
    /\ \A o1, o2 \in BinopTokens :
         (RefPrec(o1) = RefPrec(o2)
          /\ src.expr = Operand(1) \o <<Tok(o1)>> \o Operand(2) \o <<Tok(o2)>>
                          \o Operand(3))
         => /\ pexpr.Operation = RefKind(o2)
            /\ pexpr.Lhs.k = "Binop" /\ pexpr.Lhs.Operation = RefKind(o1)
            /\ pexpr.Rhs.k = "VariableRef"

\* a - b + c followed by a brace was parsed as (a - b) + c, cursor on the
\* brace.
C10_Witness ==
  /\ src.expr = Operand(1) \o <<Tok("Minus")>> \o Operand(2) \o <<Tok("Plus")>>
                  \o Operand(3)
  /\ src.rest = <<Tok("Lbrace")>>
  /\ perr = ""
  /\ parser.index = 5
  /\ pexpr.k = "Binop" /\ pexpr.Operation = "+"
  /\ pexpr.Lhs.k = "Binop" /\ pexpr.Lhs.Operation = "-"

(***************************************************************************)
(* Attributes.                                                             *)
(***************************************************************************)
\* The cursor positions right after a package clause or a declaration.
DeclEnds(s) ==
  {Len(Render(s)) - Len(RenderFrom(s, k)) : k \in 1..Len(s.decls)}
  \cup {Len(Render(s)) - Len(RenderFrom(s, k)) + 2 : k \in s.pkgAt}

\* C11: the unit's attributes are those of the lists before the package
\* clause, each parsed function's attributes are those of the lists right
\* before it and each parameter's attributes are those of the lists right
\* before its name, nothing else; and whenever the cursor is right after a
\* package clause or a function declaration, the pending attributes of the
\* parser are empty.
C11_AttributesAttachToNext ==
  /\ parser.unit.Attributes =
        IF parser.unit.Ident = "" THEN NoAttrs ELSE AttrsOf(src.unitAttrs)
  /\ \A i \in 1..Len(parser.unit.Funcs) :
       /\ parser.unit.Funcs[i].Attributes = AttrsOf(src.decls[i].attrs)
       /\ Len(parser.unit.Funcs[i].Params) = Len(src.decls[i].params)
       /\ \A j \in DOMAIN src.decls[i].params :
            parser.unit.Funcs[i].Params[j].Attributes
              = AttrsOf(src.decls[i].params[j].attrs)
  /\ (perr \in {"", "EOF"} /\ parser.index \in DeclEnds(src))
       => parser.attributes = NoAttrs

\* A unit with attributes of its own, a first function with attributes on
\* itself and on its second parameter only, and a second function without
\* any.
C11_Witness ==
  /\ perr = "EOF"
  /\ parser.attributes = NoAttrs
  /\ DOMAIN parser.unit.Attributes = {"inline", "pure"}
  /\ Len(parser.unit.Funcs) = 2
  /\ DOMAIN parser.unit.Funcs[1].Attributes = {"export"}
  /\ parser.unit.Funcs[1].Params[1].Attributes = NoAttrs
  /\ DOMAIN parser.unit.Funcs[1].Params[2].Attributes = {"inline"}
  /\ parser.unit.Funcs[1].Params[3].Attributes = NoAttrs
  /\ parser.unit.Funcs[2].Attributes = NoAttrs
  /\ \A j \in 1..3 : parser.unit.Funcs[2].Params[j].Attributes = NoAttrs

\* C12: no function the parser adds to the unit carries a linkname
\* attribute whose value is not a string (an integer or no value), so that
\* lowering never panics on a linkname attribute.
C12_LinknameIsString ==
  \A i \in 1..Len(parser.unit.Funcs) : ~LinknamePanics(parser.unit.Funcs[i])

(***************************************************************************)
(* Properties of the tokenizer.  The lexical grammar is read off a         *)
(* reference scan of the input that tells, per position, whether the      *)
(* character there is read as code, inside a string or inside a comment.   *)
(***************************************************************************)
Input == tokenizer.Scan.data

\* The mode after a character c read in a mode, nxt the character after c.
LexStep(mode, c, nxt) ==
  CASE mode = "code" -> IF c = "\"" THEN "string"
                        ELSE IF c = "/" /\ nxt = "/" THEN "comment"
                        ELSE "code"
    [] mode = "string" -> IF c = "\\" THEN "escape"
                          ELSE IF c = "\"" THEN "code"
                          ELSE "string"
    [] mode = "escape" -> "string"
    [] mode = "comment" -> IF c \in {"\n", "\r"} THEN "code" ELSE "comment"

\* The mode after the first k characters.
RECURSIVE ModeAt(_, _)
ModeAt(data, k) ==
  IF k = 0 THEN "code"
  ELSE LexStep(ModeAt(data, k - 1), data[k],
               IF k < Len(data) THEN data[k + 1] ELSE "")

EndsInString(data) == ModeAt(data, Len(data)) \in {"string", "escape"}

Returned == tret # NoReturn

\* C13: on an input that ends inside a string literal Tokens returns an
\* error, never tokens with a nil error.
C13_UnterminatedStringFails ==
  (Returned /\ EndsInString(Input)) => tret.err # ""

\* Position i is read as code: outside strings and comments.
InCode(data, i) == ModeAt(data, i - 1) = "code"

\* The character at position i, read as code, starts no token and is no
\* part of one: a character outside the tokenizer's character set, a '/'
\* that does not open a comment, a '-' that starts neither an arrow nor a
\* negative number, or a '>' that does not end an arrow.
InvalidAt(data, i) ==
  /\ InCode(data, i)
  /\ CASE data[i] = "-" ->
            ~(i < Len(data) /\ (data[i + 1] = ">" \/ isNumeric(data[i + 1])))
       [] data[i] = "/" -> ~(i < Len(data) /\ data[i + 1] = "/")
       [] data[i] = ">" -> ~(i > 1 /\ data[i - 1] = "-" /\ InCode(data, i - 1))
       [] OTHER -> ~(\/ data[i] \in {"=", "(", ")", "{", "}", ",", ":", "@", "+", "\""}
                     \/ isWhitespace(data[i])
                     \/ isAlphanumeric(data[i]))

\* C14: on an input with a character that starts no token outside strings
\* and comments, Tokens returns an error.
C14_InvalidByteFails ==
  (Returned /\ \E i \in DOMAIN Input : InvalidAt(Input, i)) => tret.err # ""

\* The text of a token: a string literal with its quotes, any other token
\* as written.
TokenText(tok) ==
  IF tok.Type = "String" THEN "\"" \o tok.StringVal \o "\"" ELSE tok.StringVal

RECURSIVE Joined(_)
Joined(toks) == IF toks = <<>> THEN "" ELSE TokenText(Head(toks)) \o Joined(Tail(toks))

\* The input without white space and comments, from position i on.
RECURSIVE Stripped(_, _)
Stripped(data, i) ==
  IF i > Len(data) THEN ""
  ELSE (IF \/ ModeAt(data, i - 1) \in {"string", "escape"}
           \/ /\ InCode(data, i)
              /\ ~isWhitespace(data[i])
              /\ ModeAt(data, i) # "comment"
        THEN data[i] ELSE "")
       \o Stripped(data, i + 1)

\* C15: when Tokens returns a nil error, the texts of the returned tokens,
\* put together in order, are the input without white space and comments.
C15_TokensReproduceInput ==
  (Returned /\ tret.err = "") => Joined(tret.tokens) = Stripped(Input, 1)

\* C16: a Number token with a '-' in front never follows an identifier, a
\* number or a ')'.
C16_MinusAfterValueNotFolded ==
  \A i \in 2..Len(tokens) :
    (tokens[i].Type = "Number" /\ tokens[i].NumberVal < 0)
      => tokens[i - 1].Type \notin {"Identifier", "Number", "RightParen"}

(***************************************************************************)
(* Properties of the pipeline.                                             *)
(***************************************************************************)
HasRet(instrs) == \E j \in DOMAIN instrs : instrs[j].i = "Ret"

\* C17: the unit Lower returns has one function entry per declaration of
\* the source, in source order; the entry of an extern function has no
\* blocks, an entry has export linkage exactly if its declaration carries
\* the export attribute and a return ABI type exactly if its declared
\* return type is not Void, and the entry of a function with a body has
\* exactly one block, labelled start, that holds the instructions its body
\* was lowered to.  (A unit on which VisitFuncDef panics returns nothing.)
C17_OneEntryPerDeclaration ==
  /\ \A r \in DOMAIN runs :
       /\ Len(runs[r].FuncDefs) = Len(src.decls)
       /\ \A i \in DOMAIN src.decls :
            LET f == runs[r].FuncDefs[i]
                d == src.decls[i]
            IN /\ f.Ident = d.name
               /\ d.extern => f.Blocks = <<>>
               /\ f.Linkage = "export" <=> "export" \in DOMAIN AttrsOf(d.attrs)
               /\ f.RetTy # "" <=> ~IsVoid(d)
               /\ ~d.extern => /\ Len(f.Blocks) = 1
                               /\ f.Blocks[1].Label = "start"
                               /\ HasRet(f.Blocks[1].Instructions)
  /\ (fi >= 2 /\ v.panic = "") =>
       LET f == v.unit.FuncDefs[fi - 1]
       IN /\ Len(v.unit.FuncDefs) = fi - 1
          /\ f.Blocks = IF cu.Funcs[fi - 1].Body = NilNode THEN <<>>
                        ELSE <<[Label |-> "start",
                                Instructions |-> v.lastInstructions]>>

\* Lower has returned the entries of an extern function and of an exported
\* function returning int.
C17_Witness ==
  /\ Len(runs) >= 1
  /\ Len(src.decls) = 2
  /\ src.decls[1].extern /\ ~src.decls[2].extern
  /\ src.decls[2].name = "main"
  /\ LET g == runs[1].FuncDefs[1]
         main == runs[1].FuncDefs[2]
     IN /\ g.Ident = "g" /\ g.Blocks = <<>> /\ g.Linkage = "" /\ g.RetTy = "w"
        /\ main.Ident = "main" /\ main.Linkage = "export" /\ main.RetTy = "w"
        /\ Len(main.Blocks) = 1
        /\ Len(main.Blocks[1].Instructions) = 2

(***************************************************************************)
(* The package clause.                                                     *)
(***************************************************************************)
\* The number of declarations before the second package clause.
SecondPackage(s) ==
  CHOOSE k \in s.pkgAt \ {0} : \A j \in s.pkgAt \ {0} : k <= j

\* C18: in a unit whose first declaration comes before any package clause,
\* Parse adds no function, returns only with the error of the missing
\* package, and the unit's package identifier stays empty; in a unit with a
\* second package clause, Parse returns only with the error of the
\* redefinition, adds only the functions before that clause, and the
\* unit's package identifier stays the one of the first clause.
C18_PackageOrder ==
  /\ (0 \notin src.pkgAt /\ src.decls # <<>>) =>
       /\ perr \in {"", "package must be defined"}
       /\ parser.unit.Funcs = <<>>
       /\ parser.unit.Ident = ""
  /\ (0 \in src.pkgAt /\ Cardinality(src.pkgAt) >= 2) =>
       /\ perr \in {"", "package already defined"}
       /\ Len(parser.unit.Funcs) <= SecondPackage(src)
       /\ parser.unit.Ident \in {"", "main"}
       /\ perr # "" => /\ parser.unit.Ident = "main"
                       /\ parser.unit.Attributes = AttrsOf(src.unitAttrs)
                       /\ Len(parser.unit.Funcs) = SecondPackage(src)

\* Parse has failed on the second package clause, written after one
\* function.
C18_Witness ==
  /\ src.pkgAt = {0, 1}
  /\ perr = "package already defined"
  /\ parser.unit.Ident = "main"
  /\ Len(parser.unit.Funcs) = 1

(***************************************************************************)
(* Declarations and assignments.                                           *)
(***************************************************************************)
\* The type a run of carets and a type keyword denotes, Unknown for none.
RECURSIVE RefType(_)
RefType(toks) ==
  IF toks = <<>> THEN NewType("unknown")
  ELSE IF Head(toks).Type = "Caret" THEN NewPointerType(RefType(Tail(toks)))
  ELSE NewType(Head(toks).Keyword)

\* The position of the '=' of a statement, 0 if it has none.
AssignAt(toks) ==
  IF \E i \in DOMAIN toks : toks[i].Type = "Assign"
  THEN CHOOSE i \in DOMAIN toks : toks[i].Type = "Assign"
  ELSE 0

\* The instructions the statement forms  x : T = e,  x := e,  x : T  and
\* x = e  stand for.
RefDeclare(toks, eq) ==
  IF eq = 0
  THEN <<NewDeclare(toks[1].StringVal, RefType(SubSeq(toks, 3, Len(toks))))>>
  ELSE <<NewDeclare(toks[1].StringVal, RefType(SubSeq(toks, 3, eq - 1))),
         NewAssign(NewVariableRef(toks[1].StringVal,
                                  RefType(SubSeq(toks, 3, eq - 1)).Kind),
                   RefTree(SubSeq(toks, eq + 1, Len(toks))))>>

RefStatement(s) ==
  IF s.kind = "declare" THEN RefDeclare(s.toks, AssignAt(s.toks))
  ELSE <<NewAssign(NewVariableRef(s.toks[1].StringVal, "unknown"),
                   RefTree(SubSeq(s.toks, 3, Len(s.toks))))>>

PlainBody(d) ==
  /\ ~d.extern
  /\ IsVoid(d)
  /\ \A j \in DOMAIN d.body : d.body[j].kind \in {"declare", "assign"}

\* C19: a function whose statements are declarations and assignments is
\* parsed without an error, and its instructions are, statement by
\* statement, one Declare of the name with the written type (pointer types
\* included, Unknown when no type is written) followed, exactly when an
\* initializer is written, by one Assign of its expression to the variable;
\* nothing else but the Return the parser adds at the end.
C19_DeclareForms ==
  /\ (src.pkgAt = {0} /\ src.rest = <<>>
      /\ \A i \in DOMAIN src.decls : PlainBody(src.decls[i]))
       => perr \in {"", "EOF"}
  /\ \A i \in 1..Len(parser.unit.Funcs) :
       PlainBody(src.decls[i]) =>
         parser.unit.Funcs[i].Body.Instructions
           = Flatten([j \in DOMAIN src.decls[i].body |->
                        RefStatement(src.decls[i].body[j])])
             \o <<NewReturn(NilNode)>>

\* y : ^int = a + 1 followed by y : bool has been parsed.
C19_Witness ==
  /\ perr = "EOF"
  /\ Len(parser.unit.Funcs) = 1
  /\ parser.unit.Funcs[1].Body.Instructions =
       <<NewDeclare("y", NewPointerType(NewType("int"))),
         NewAssign(NewVariableRef("y", "pointer"),
                   NewBinopNode("+", NewVariableRef("a", "unknown"),
                                NewIntLiteral(1), "unknown")),
         NewDeclare("y", NewType("bool")),
         NewReturn(NilNode)>>

\* C20: the left-hand side of every Assign of a parsed function is a
\* VariableRef or a Deref, and a function with a statement that starts
\* with (e) without '^', or with x^ or (e)^ without '=' after it, is never
\* added to the unit: Parse fails on it.
C20_LValueOrError ==
  /\ \A i \in 1..Len(parser.unit.Funcs) :
       parser.unit.Funcs[i].Body # NilNode =>
         \A j \in DOMAIN parser.unit.Funcs[i].Body.Instructions :
           LET ins == parser.unit.Funcs[i].Body.Instructions[j]
           IN ins.k = "Assign" => ins.LHS.k \in {"VariableRef", "Deref"}
  /\ \A i \in DOMAIN src.decls :
       (\E j \in DOMAIN src.decls[i].body : src.decls[i].body[j].kind = "notassign")
         => /\ i > Len(parser.unit.Funcs)
            /\ perr # "EOF"


(***************************************************************************)
(* Properties of single visits (SpecVisit).                                *)
(***************************************************************************)
EndsInRet(ins) == ins # <<>> /\ ins[Len(ins)].i = "Ret"

\* The visitor after instrs are put at the end of its list as they are.
Emit(vis, instrs) == [vis EXCEPT !.lastInstructions = @ \o instrs]

\* The synthetic label in front of a non-label instruction that follows a
\* Ret: the visitor with the label emitted, or as it was.
AfterRet(vis) ==
  IF EndsInRet(vis.lastInstructions)
  THEN Emit([vis EXCEPT !.labelCounter = @ + 1],
            <<NewLabel(LabelName(vis.labelCounter + 1, "block"))>>)
  ELSE vis

\* The visitor after the then-part of an If with labels T, F, E, from the
\* visitor after its condition.
IfThenPart(c, iff, T, F) ==
  Accept(Emit(AfterRet(c), <<NewJnz(c.lastVal, T, F), NewLabel(T)>>), iff.Then)

IfElsePart(t, iff, F, E) ==
  IF iff.Else.k # "Nil"
  THEN Accept(Emit(AfterRet(t), <<NewJmp(E), NewLabel(F)>>), iff.Else)
  ELSE Emit(AfterRet(t), <<NewJmp(E), NewLabel(F)>>)

IfCondPart(vis, iff) ==
  Accept(AcceptAll([vis EXCEPT !.labelCounter = @ + 3], iff.Init), iff.Cond)

IfShape(vis, iff, T, F, E) ==
  Emit(IfElsePart(IfThenPart(IfCondPart(vis, iff), iff, T, F), iff, F, E),
       <<NewLabel(E)>>)

\* The instruction list holds Jmp(E) at position k + 1, behind a block label
\* if and only if the instruction at k is a Ret.
JmpAfter(ins, k, E) ==
  IF ins[k].i = "Ret"
  THEN IsBlockLabel(ins, k + 1) /\ ins[k + 2] = NewJmp(E)
  ELSE ins[k + 1] = NewJmp(E)

\* C21: lowering an If takes the labels T, F, E first and appends the
\* initialisers, the condition, Jnz(c, T, F), Label(T), the then-block,
\* Jmp(E), Label(F), the else-part if there is one, and Label(E); a block
\* label stands before Jmp(E) exactly when the then-block's instructions end
\* in a Ret, and none stands before Label(E).
C21_IfShape ==
  (outcome.done /\ visited.k = "If") =>
    /\ outcome.v.lastInstructions
         = IfShape(entry, visited,
                   LabelName(entry.labelCounter + 1, "then"),
                   LabelName(entry.labelCounter + 2, "else"),
                   LabelName(entry.labelCounter + 3, "end")).lastInstructions
    /\ JmpAfter(outcome.v.lastInstructions,
                Len(IfThenPart(IfCondPart(entry, visited), visited,
                               LabelName(entry.labelCounter + 1, "then"),
                               LabelName(entry.labelCounter + 2, "else")).lastInstructions),
                LabelName(entry.labelCounter + 3, "end"))
    /\ LET ins == outcome.v.lastInstructions
       IN /\ ins[Len(ins)] = NewLabel(LabelName(entry.labelCounter + 3, "end"))
          /\ ~IsBlockLabel(ins, Len(ins) - 1)

\* An If with initialisers, a short-circuit condition, a then-block and an
\* else-block that both end in a return has been lowered.
C21_Witness ==
  /\ outcome.done
  /\ visited.k = "If"
  /\ visited.Init # <<>>
  /\ visited.Cond.k = "Binop"
  /\ visited.Then.Instructions = <<NewReturn(VarX)>>
  /\ visited.Else = NewBody(<<NewReturn(VarX)>>)
  /\ LET ins == outcome.v.lastInstructions
     IN /\ ins[Len(ins) - 1].i = "Ret"
        /\ \E j \in 2..Len(ins) : ins[j].i = "Jmp" /\ IsBlockLabel(ins, j - 1)


\* The visitor after the condition of a For with labels S, B, E.
ForCondPart(vis, f, S) ==
  Accept(Emit(AcceptAll([vis EXCEPT !.labelCounter = @ + 3], f.Init),
              <<NewLabel(S)>>),
         f.Cond)

\* The visitor after the body and the post statements.
ForBodyPart(c, f, B, E) ==
  AcceptAll(Accept(Emit(AfterRet(c), <<NewJnz(c.lastVal, B, E), NewLabel(B)>>),
                   f.Body),
            f.Post)

ForShape(vis, f, S, B, E) ==
  Emit(AfterRet(ForBodyPart(ForCondPart(vis, f, S), f, B, E)),
       <<NewJmp(S), NewLabel(E)>>)

\* The positions of Label(name) in an instruction list.
LabelAt(ins, name) == {j \in DOMAIN ins : ins[j] = NewLabel(name)}

\* C22: lowering a For appends the initialisers, Label(S), the condition,
\* Jnz(c, B, E), Label(B), the body, the post statements, Jmp(S) and
\* Label(E): the initialisers lie before Label(S), the condition between
\* Label(S) and the Jnz, so the jump back to S evaluates it again, and the
\* post statements between the body and Jmp(S).
C22_ForShape ==
  (outcome.done /\ visited.k = "For") =>
    /\ outcome.v.lastInstructions
         = ForShape(entry, visited,
                    LabelName(entry.labelCounter + 1, "for"),
                    LabelName(entry.labelCounter + 2, "body"),
                    LabelName(entry.labelCounter + 3, "end")).lastInstructions
    /\ LET ins == outcome.v.lastInstructions
           S == LabelName(entry.labelCounter + 1, "for")
           B == LabelName(entry.labelCounter + 2, "body")
           E == LabelName(entry.labelCounter + 3, "end")
           nI == Len(AcceptAll([entry EXCEPT !.labelCounter = @ + 3],
                               visited.Init).lastInstructions)
       IN /\ LabelAt(ins, S) = {nI + 1}
          /\ ins[Len(ins)] = NewLabel(E)
          /\ ins[Len(ins) - 1] = NewJmp(S)
          /\ \E j \in (nI + 2)..(Len(ins) - 2) :
               /\ ins[j].i = "Jnz" /\ ins[j].ifTrue = B /\ ins[j].ifFalse = E
               /\ ins[j + 1] = NewLabel(B)

\* A For with initialisers, a short-circuit condition, a body that returns
\* and a post statement has been lowered.
C22_Witness ==
  /\ outcome.done
  /\ visited.k = "For"
  /\ visited.Init # <<>>
  /\ visited.Post # <<>>
  /\ visited.Cond.k = "Binop"
  /\ visited.Body.Instructions = <<NewReturn(VarX)>>
  /\ Len(outcome.v.lastInstructions) >= Len(entry.lastInstructions) + 12


\* The visitor after the left operand of a short-circuit Binop, with the
\* result temporary and the three labels taken.
LogLeft(vis, b) ==
  Accept([vis EXCEPT !.lastVal = NilVal, !.lastType = "nil"], b.Lhs)

LogResult(l) == NewValIdent("_tmp_" \o Pad4(l.tmpCounter + 1))

\* The visitor after the right operand: X is the label of the short-circuit
\* arm and Y the label of the arm that evaluates the right operand.
LogRight(l, b, T, F, E, X, Y) ==
  Accept(Emit(AfterRet([l EXCEPT !.tmpCounter = @ + 1, !.labelCounter = @ + 3]),
              <<NewJnz(l.lastVal, T, F),
                NewLabel(X),
                NewBinop("add", LogResult(l), l.lastVal, NewValInteger(0)),
                NewJmp(E),
                NewLabel(Y)>>),
         b.Rhs)

LogEnd(r, res, E) ==
  Emit(r, <<NewBinop("add", res, r.lastVal, NewValInteger(0)), NewLabel(E)>>)

LogShapeFrom(l, b, T, F, E) ==
  IF b.Operation = "&&"
  THEN LogEnd(LogRight(l, b, T, F, E, F, T), LogResult(l), E)
  ELSE LogEnd(LogRight(l, b, T, F, E, T, F), LogResult(l), E)

LogShape(l, b) ==
  LogShapeFrom(l, b, LabelName(l.labelCounter + 1, "true"),
               LabelName(l.labelCounter + 2, "false"),
               LabelName(l.labelCounter + 3, "end"))

\* C23: lowering l && r or l || r appends, after l's instructions,
\* Jnz(l, T, F), Label(X), Binop(add, result, l, 0), Jmp(E), Label(Y), r's
\* instructions, Binop(add, result, r', 0) and Label(E), with (X, Y) = (F, T)
\* for && and (T, F) for ||; r's instructions lie between Label(Y) and
\* Label(E), and the value of the expression is result.
C23_ShortCircuitShape ==
  (outcome.done /\ visited.k = "Binop" /\ visited.Operation \in {"&&", "||"}) =>
    /\ outcome.v.lastInstructions
         = LogShape(LogLeft(entry, visited), visited).lastInstructions
    /\ outcome.v.lastVal = LogResult(LogLeft(entry, visited))
    /\ LET ins == outcome.v.lastInstructions
           l == LogLeft(entry, visited)
           Y == IF visited.Operation = "&&"
                THEN LabelName(l.labelCounter + 1, "true")
                ELSE LabelName(l.labelCounter + 2, "false")
           X == IF visited.Operation = "&&"
                THEN LabelName(l.labelCounter + 2, "false")
                ELSE LabelName(l.labelCounter + 1, "true")
       IN \E y \in LabelAt(ins, Y) :
            /\ LabelAt(ins, Y) = {y}
            /\ ins[y - 1] = NewJmp(LabelName(l.labelCounter + 3, "end"))
            /\ ins[y - 3] = NewLabel(X)
            /\ ins[y - 4].i = "Jnz"
            /\ ins[y - 4].cond = l.lastVal
            /\ y - 4 > Len(entry.lastInstructions)
            /\ y - 4 >= Len(l.lastInstructions) + 1
            /\ ins[Len(ins)] = NewLabel(LabelName(l.labelCounter + 3, "end"))
            /\ ins[Len(ins) - 1].i = "Binop"
            /\ ins[Len(ins) - 1].dest = outcome.v.lastVal

\* An && whose left operand is an || and whose right operand is an && has
\* been lowered.
C23_Witness ==
  /\ outcome.done
  /\ visited.k = "Binop"
  /\ visited.Operation = "&&"
  /\ visited.Lhs.k = "Binop" /\ visited.Lhs.Operation = "||"
  /\ visited.Rhs.k = "Binop" /\ visited.Rhs.Operation = "&&"
  /\ Cardinality({j \in DOMAIN outcome.v.lastInstructions :
                    outcome.v.lastInstructions[j].i = "Jnz"}) >= 3


\* The last two instructions scale an operand: a multiplication by 4 into a
\* fresh _idx_ temporary that the last instruction takes as right operand.
Scaled(vis0, vis1) ==
  LET ins == vis1.lastInstructions
      n == Len(ins)
  IN /\ n >= Len(vis0.lastInstructions) + 2
     /\ ins[n - 1].i = "Binop"
     /\ ins[n - 1].bop = "mul"
     /\ ins[n - 1].rhs = NewValInteger(4)
     /\ ins[n - 1].dest = NewValIdent("_idx_" \o Pad4(vis1.tmpCounter))
     /\ ins[n].i = "Binop"
     /\ ins[n].rhs = ins[n - 1].dest

\* C24: for a Binop with + or -, of whatever kind its operands are, the
\* integer operand is multiplied by 4 into a fresh _idx_ temporary and the
\* operation emitted on the pointer and that temporary if and only if
\* exactly one of the two operands has pointer type.
C24_ScalingIffOnePointer ==
  (outcome.done /\ visited.k = "Binop" /\ visited.Operation \in {"+", "-"}) =>
    (Scaled(entry, outcome.v)
       <=> ((visited.Lhs.Type = "pointer") # (visited.Rhs.Type = "pointer")))


\* Assign through a pointer, the pointer expression lowered first.
StoreShape(p, vv) == Emit(AfterRet(vv), <<NewStore(p.lastVal, vv.lastVal)>>)

MoveShape(vv, a) ==
  Emit(AfterRet(vv),
       <<NewBinop("add", NewValIdent(a.LHS.Ident), vv.lastVal, NewValInteger(0))>>)

AssignShape(vis, a) ==
  IF a.LHS.k = "Deref"
  THEN StoreShape(Accept([vis EXCEPT !.lastVal = NilVal], a.LHS.Expr),
                  Accept([Accept([vis EXCEPT !.lastVal = NilVal], a.LHS.Expr)
                            EXCEPT !.lastVal = NilVal], a.Value))
  ELSE MoveShape(Accept([vis EXCEPT !.lastVal = NilVal], a.Value), a)

\* C25: lowering Assign{Deref(p), v} appends p's instructions, then v's
\* instructions, then one Store of v's value to p's address; lowering
\* Assign{VariableRef(x), v} appends v's instructions and Binop(add, x, v', 0).
C25_AssignOrder ==
  (outcome.done /\ visited.k = "Assign") =>
    outcome.v.lastInstructions = AssignShape(entry, visited).lastInstructions


\* Assign through a pointer, the value lowered first: vv is the visitor
\* after the value and p the visitor after the pointer expression.
StoreAfterValue(vv, p) == Emit(AfterRet(p), <<NewStore(p.lastVal, vv.lastVal)>>)

AssignValueFirst(vv, a) ==
  IF a.LHS.k = "Deref"
  THEN StoreAfterValue(vv, Accept([vv EXCEPT !.lastVal = NilVal], a.LHS.Expr))
  ELSE MoveShape(vv, a)

\* C25 amended: lowering Assign{Deref(p), v} appends v's instructions, then
\* p's instructions, then one Store of v's value to p's address; lowering
\* Assign{VariableRef(x), v} appends v's instructions and Binop(add, x, v', 0).
C25_ValueBeforePointer ==
  (outcome.done /\ visited.k = "Assign") =>
    outcome.v.lastInstructions
      = AssignValueFirst(Accept([entry EXCEPT !.lastVal = NilVal], visited.Value),
                         visited).lastInstructions

\* An assignment through a pointer has been lowered whose pointer expression
\* and value both lower to instructions, and an assignment to a variable.
C25_Witness ==
  /\ outcome.done
  /\ visited.k = "Assign"
  /\ visited.LHS.k = "Deref"
  /\ visited.LHS.Expr.k = "Binop"
  /\ visited.Value.k = "Deref"
  /\ LET ins == outcome.v.lastInstructions
     IN /\ ins[Len(ins)].i = "Store"
        /\ ins[Len(ins) - 1].i = "Binop"
        /\ ins[Len(ins) - 3].i = "Load"


\* The number of string literals in a node.
RECURSIVE StringsIn(_)
RECURSIVE StringsInAll(_)
StringsInAll(nodes) ==
  IF nodes = <<>> THEN 0 ELSE StringsIn(Head(nodes)) + StringsInAll(Tail(nodes))

RECURSIVE StringsInArgs(_)
StringsInArgs(args) ==
  IF args = <<>> THEN 0 ELSE StringsIn(Head(args).Value) + StringsInArgs(Tail(args))

StringsIn(node) ==
  CASE node.k = "Literal" -> IF node.Type = "string" THEN 1 ELSE 0
    [] node.k = "Body" -> StringsInAll(node.Instructions)
    [] node.k = "Assign" -> StringsIn(node.LHS) + StringsIn(node.Value)
    [] node.k = "Call" -> StringsInArgs(node.Args)
    [] node.k = "Return" -> StringsIn(node.Value)
    [] node.k = "Binop" -> StringsIn(node.Lhs) + StringsIn(node.Rhs)
    [] node.k = "If" ->
         StringsInAll(node.Init) + StringsIn(node.Cond) + StringsIn(node.Then)
         + StringsIn(node.Else)
    [] node.k = "For" ->
         StringsInAll(node.Init) + StringsIn(node.Cond) + StringsInAll(node.Post)
         + StringsIn(node.Body)
    [] node.k = "Deref" -> StringsIn(node.Expr)
    [] OTHER -> 0

RECURSIVE StringsInFuncs(_, _)
StringsInFuncs(funcs, n) ==
  IF n = 0 THEN 0 ELSE StringsInFuncs(funcs, n - 1) + StringsIn(funcs[n].Body)


\* C26: every lowered occurrence of a string literal adds one data
\* definition to the unit, equal literals included; the names of the data
\* definitions are pairwise distinct across the functions of the unit; and
\* the value of a literal is the global symbol named as its definition.
C26_OneDataDefPerLiteral ==
  (fi >= 1 /\ fi <= Len(cu.Funcs) + 1) =>
    /\ Len(v.unit.DataDefs) = StringsInFuncs(cu.Funcs, fi - 1)
    /\ \A i, j \in DOMAIN v.unit.DataDefs :
         i # j => v.unit.DataDefs[i].ident # v.unit.DataDefs[j].ident
    /\ \A i \in DOMAIN v.unit.DataDefs :
         /\ v.unit.DataDefs[i].str = "s"
         /\ \E f \in DOMAIN v.unit.FuncDefs :
              \E j \in DOMAIN Instrs(v.unit.FuncDefs[f]) :
                /\ Instrs(v.unit.FuncDefs[f])[j].i = "Call"
                /\ \E a \in DOMAIN Instrs(v.unit.FuncDefs[f])[j].args :
                     Instrs(v.unit.FuncDefs[f])[j].args[a].val
                       = NewValGlobal(v.unit.DataDefs[i].ident)

\* Two functions of a unit have been lowered that both hold the literal "s".
C26_Witness ==
  /\ fi = Len(cu.Funcs) + 1
  /\ Len(v.unit.DataDefs) >= 2
  /\ v.unit.DataDefs[1].str = v.unit.DataDefs[2].str
  /\ \E f, g \in DOMAIN cu.Funcs :
       f # g /\ StringsIn(cu.Funcs[f].Body) > 0 /\ StringsIn(cu.Funcs[g].Body) > 0


\* C27: every IR function that has a body ends with a Ret, void functions
\* (through the parser's implicit Return) and non-void functions alike.
C27_BodyEndsWithRet ==
  \A i \in DOMAIN v.unit.FuncDefs :
    v.unit.FuncDefs[i].Blocks # <<>> =>
      /\ Instrs(v.unit.FuncDefs[i]) # <<>>
      /\ Instrs(v.unit.FuncDefs[i])[Len(Instrs(v.unit.FuncDefs[i]))].i = "Ret"

\* A unit has gone through the parser, the type checker and the lowering
\* with a void function whose source has no return statement and a non-void
\* function.
C27_Witness ==
  /\ fi > Len(cu.Funcs)
  /\ Len(v.unit.FuncDefs) >= 2
  /\ \E i \in DOMAIN v.unit.FuncDefs :
       /\ v.unit.FuncDefs[i].Blocks # <<>>
       /\ v.unit.FuncDefs[i].RetTy = ""
       /\ \A j \in DOMAIN src.decls[i].body : src.decls[i].body[j].kind # "return"
  /\ \E i \in DOMAIN v.unit.FuncDefs :
       /\ v.unit.FuncDefs[i].Blocks # <<>>
       /\ v.unit.FuncDefs[i].RetTy # ""


\* C28: a function whose block holds a token that starts no statement (a
\* number, a string, an operator, a ';', or a keyword other than return, if
\* and for) is never added to the unit: Parse fails on it.
C28_StrayTokenFails ==
  \A i \in DOMAIN src.decls :
    (\E j \in DOMAIN src.decls[i].body : src.decls[i].body[j].kind = "stray")
      => /\ i > Len(parser.unit.Funcs)
         /\ perr # "EOF"


\* C29: for tokens that end in the middle of a construct, the error Parse
\* returns is not the one it returns at the end of a complete unit (io.EOF),
\* and the unit holds only the complete functions.
C29_TruncationDistinguished ==
  (src \in TruncatedSources /\ perr # "") =>
    /\ perr # "EOF"
    /\ Len(parser.unit.Funcs) = Len(src.decls)


(***************************************************************************)
(* Termination of Parse: the cursor and the loops of the parser.           *)
(***************************************************************************)
\* The parser of the current state with its cursor at position i, inside a
\* function of return type ret.
ParserAt(i, ret) == [parser EXCEPT !.index = i, !.currentRetType = ret]

InRange(p) == p.index \in 0..Len(p.tok)

\* One pass through a loop that started at p and ended in r: the cursor is
\* in range, and when the loop goes on it is further than at the start.
Advances(p, r, goesOn) ==
  /\ InRange(r.p)
  /\ goesOn => r.p.index > p.index

\* for { first, err := p.nextToken() ... } of parseBlock.
BlockIteration(p, first, added) ==
  Advances(p, added,
           first.err = "" /\ first.val.Type # "Rbrace" /\ added.err = "")

BlockIterationAdvances(p) ==
  BlockIteration(p, nextToken(p),
                 IF nextToken(p).err # "" THEN nextToken(p)
                 ELSE parseBlockLoopStatement(nextToken(p)))

\* for next.Type != TypeRparen { ... } of parseCall.
ArgIteration(p, e, next) ==
  Advances(p, next, next.err = "" /\ next.val.Type # "Rparen")

ArgIterationAdvances(p) ==
  ArgIteration(p, parseExpression(p, TRUE),
               IF parseExpression(p, TRUE).err # "" THEN parseExpression(p, TRUE)
               ELSE expectType(parseExpression(p, TRUE).p,
                               IF parseExpression(p, TRUE).val # NilNode
                               THEN {"Rparen", "Comma"} ELSE {"Rparen"}))

\* The loop over the carets of parseType.
CaretIteration(p, tok) ==
  Advances(p, tok, tok.err = "" /\ tok.val.Type = "Caret")

CaretIterationAdvances(p) == CaretIteration(p, peekType(p, {"Caret"}))

\* The values of minPrec parseExpressionPratt is called with: 0 by
\* parseExpression, and for the right operand of an operator the precedence
\* that follows the operator's.
MinPrecs == {0} \cup {nextMinPrec(opPrecedence(tt)) : tt \in BinopTokens}

\* The operator loop of parseExpressionPratt, for every minPrec: the pass
\* ends the loop at a token that is no operator and, with the cursor put
\* back, at an operator of lower precedence.  (The left operand plays no
\* part in the cursor.)
OperatorIteration(p, pass) == Advances(p, pass, pass.goesOn)

OperatorIterationAdvances(p, minPrec) ==
  OperatorIteration(p, parseExpressionIteration(p, NilNode, minPrec))

\* The loop of parseAttributes: a valid key, an optional value, then ',' or
\* ')'; the pass ends the loop at ')' and with every error.
AttrIteration(p, pass) == Advances(p, pass, pass.goesOn)

AttrIterationAdvances(p) == AttrIteration(p, parseAttributesIteration(p))

\* Every loop of the parser, entered at any position of the tokens.
LoopsAdvance ==
  \A i \in 0..Len(parser.tok), ret \in {"void", "int"} :
    /\ BlockIterationAdvances(ParserAt(i, ret))
    /\ ArgIterationAdvances(ParserAt(i, ret))
    /\ CaretIterationAdvances(ParserAt(i, ret))
    /\ \A minPrec \in MinPrecs :
         OperatorIterationAdvances(ParserAt(i, ret), minPrec)
    /\ AttrIterationAdvances(ParserAt(i, ret))

\* C30: every iteration of the top-level loop of Parse either returns an
\* error or leaves the cursor strictly further, every iteration of the
\* block, argument, attribute, caret and operator loops either ends the loop
\* or leaves the cursor strictly further, and the cursor stays within
\* 0..len(tokens), also when the tokens end where parseIf, parseFor and
\* peekType roll back.
C30_CursorAdvances ==
  [][/\ InRange(parser')
     /\ perr' = "" => parser'.index > parser.index
     /\ parser.index = 0 => LoopsAdvance]_vars

\* The tokens end right after the keyword if of a function body: parseIf
\* has rolled the cursor back onto the keyword, parseExpression has read it
\* again and Parse has returned the error with the cursor at the end.
C30_Witness ==
  /\ src \in TruncatedSources
  /\ src.rest # <<>>
  /\ src.rest[Len(src.rest)] = TokKeyword("if")
  /\ perr = "unexpected keyword"
  /\ parser.index = Len(parser.tok)
  /\ parser.unit.Funcs = <<>>

=============================================================================
